---- MODULE Spec2Model ----
(***************************************************************************)
(* Crew-disruption recovery: the duty-legality checker, the spare finder,  *)
(* the repositioning finder, the hotel booker and the two agents that      *)
(* sequence them (iocca_mvp), driven as main.simulate_disruption does.     *)
(*                                                                         *)
(* Times are minutes since 2024-08-10 00:00.  The hour arithmetic of       *)
(* check_legality is Python float (IEEE-754 binary64) arithmetic and is    *)
(* modelled as such: F64Div, F64Sub, F64MulSmall round to nearest, ties to *)
(* even, on arbitrary-precision mantissas kept as little-endian limbs.     *)
(***************************************************************************)
EXTENDS Integers, Sequences, FiniteSets, TLC

VARIABLES
    crew_roster,            \* crew_roster_df: sequence of crew records
    flight_schedule,        \* flight_schedule_df: sequence of flight records
    repositioning_flights,  \* repositioning_flights_df: sequence of flight options
    duty_rules,             \* {"max_duty_hours": .., "min_rest_hours": ..}
    hotel_inventory,        \* hotel_inventory_df: sequence of hotel records
    pc,                     \* position in simulate_disruption / in the call driver
    crew_result,            \* what handle_crew_assignment returned
    ops_result,             \* what handle_ops_support returned
    calls,                  \* the tool and advisor calls made so far, in order
    legality,               \* the last direct check_legality call and its result
    orch_results,           \* what Orchestrator.handle_disruption returned
    affected_crew_list,     \* StatusQueryTools.affected_crew_list
    active_connections,     \* ConnectionManager.active_connections (web/app.py)
    active_requests         \* active_requests of web/app.py: disruption id -> record

vars == <<crew_roster, flight_schedule, repositioning_flights, duty_rules,
          hotel_inventory, pc, crew_result, ops_result, calls, legality, orch_results,
          affected_crew_list,
          active_connections,
          active_requests>>

----------------------------------------------------------------------------
(* Bounds of the model *)

MaxRoster == 2
MaxPool == 1
MaxHotels == 2
MaxRooms == 2
MaxHour == 10

----------------------------------------------------------------------------
(* binary64 arithmetic *)

LimbBits == 15
LimbBase == 32768
MantissaBits == 53
DivGuardBits == 70

RECURSIVE Pow2(_)
Pow2(n) == IF n = 0 THEN 1 ELSE 2 * Pow2(n - 1)

RECURSIVE BitLen(_)
BitLen(n) == IF n = 0 THEN 0 ELSE 1 + BitLen(n \div 2)

RECURSIVE BigNorm(_)
BigNorm(a) ==
    IF a # <<>> /\ a[Len(a)] = 0 THEN BigNorm(SubSeq(a, 1, Len(a) - 1)) ELSE a

RECURSIVE BigFromNat(_)
BigFromNat(n) ==
    IF n = 0 THEN <<>> ELSE <<n % LimbBase>> \o BigFromNat(n \div LimbBase)

RECURSIVE BigToNat(_)
BigToNat(a) ==
    IF a = <<>> THEN 0 ELSE a[1] + LimbBase * BigToNat(Tail(a))

Limb(a, i) == IF i <= Len(a) THEN a[i] ELSE 0

RECURSIVE BigAddFrom(_, _, _, _)
BigAddFrom(a, b, i, carry) ==
    IF i > Len(a) /\ i > Len(b)
    THEN IF carry = 0 THEN <<>> ELSE <<carry>>
    ELSE LET s == Limb(a, i) + Limb(b, i) + carry
         IN  <<s % LimbBase>> \o BigAddFrom(a, b, i + 1, s \div LimbBase)

BigAdd(a, b) == BigNorm(BigAddFrom(a, b, 1, 0))

RECURSIVE BigSubFrom(_, _, _, _)
BigSubFrom(a, b, i, borrow) ==
    IF i > Len(a) THEN <<>>
    ELSE LET d == Limb(a, i) - Limb(b, i) - borrow
         IN  IF d < 0
             THEN <<d + LimbBase>> \o BigSubFrom(a, b, i + 1, 1)
             ELSE <<d>> \o BigSubFrom(a, b, i + 1, 0)

\* a - b for a >= b
BigSub(a, b) == BigNorm(BigSubFrom(a, b, 1, 0))

RECURSIVE BigCmpAt(_, _, _)
BigCmpAt(a, b, i) ==
    IF i = 0 THEN 0
    ELSE IF Limb(a, i) > Limb(b, i) THEN 1
    ELSE IF Limb(a, i) < Limb(b, i) THEN -1
    ELSE BigCmpAt(a, b, i - 1)

BigCmp(a, b) ==
    BigCmpAt(a, b, IF Len(a) > Len(b) THEN Len(a) ELSE Len(b))

RECURSIVE BigMulFrom(_, _, _, _)
BigMulFrom(a, k, i, carry) ==
    IF i > Len(a)
    THEN BigFromNat(carry)
    ELSE LET p == a[i] * k + carry
         IN  <<p % LimbBase>> \o BigMulFrom(a, k, i + 1, p \div LimbBase)

\* a * k for 0 <= k <= LimbBase
BigMulSmall(a, k) == BigNorm(BigMulFrom(a, k, 1, 0))

RECURSIVE BigDivFrom(_, _, _, _)
BigDivFrom(a, k, i, rem) ==
    IF i = 0 THEN [quot |-> <<>>, rem |-> rem]
    ELSE LET cur  == rem * LimbBase + a[i]
             rest == BigDivFrom(a, k, i - 1, cur % k)
         IN  [quot |-> rest.quot \o <<cur \div k>>, rem |-> rest.rem]

\* quotient and remainder of a by k, 0 < k < LimbBase
BigDivSmall(a, k) ==
    LET r == BigDivFrom(a, k, Len(a), 0)
    IN  [quot |-> BigNorm(r.quot), rem |-> r.rem]

BigBitLen(a) ==
    IF a = <<>> THEN 0 ELSE (Len(a) - 1) * LimbBits + BitLen(a[Len(a)])

BigShl(a, n) ==
    IF a = <<>> THEN <<>>
    ELSE BigMulSmall([i \in 1..(n \div LimbBits) |-> 0] \o a, Pow2(n % LimbBits))

BigShr(a, n) ==
    IF n \div LimbBits >= Len(a) THEN <<>>
    ELSE BigDivSmall(SubSeq(a, (n \div LimbBits) + 1, Len(a)), Pow2(n % LimbBits)).quot

BigIsOdd(a) == a # <<>> /\ a[1] % 2 = 1

\* A float is (-1)^neg * m * 2^e with m of at most MantissaBits bits (or the
\* power of two just above).  Exponent range and subnormals play no part at
\* the magnitudes of hours and minutes.
F64Zero == [neg |-> FALSE, m |-> <<>>, e |-> 0]

\* the float nearest to the exact value (-1)^neg * n * 2^e, ties to even
F64Round(neg, n, e) ==
    IF BigBitLen(n) <= MantissaBits THEN [neg |-> neg, m |-> n, e |-> e]
    ELSE LET sh   == BigBitLen(n) - MantissaBits
             q    == BigShr(n, sh)
             r    == BigSub(n, BigShl(q, sh))
             half == BigShl(<<1>>, sh - 1)
             c    == BigCmp(r, half)
             up   == c = 1 \/ (c = 0 /\ BigIsOdd(q))
         IN  [neg |-> neg, m |-> IF up THEN BigAdd(q, <<1>>) ELSE q, e |-> e + sh]

\* float(n) for an integer n
F64FromInt(n) ==
    F64Round(n < 0, BigFromNat(IF n < 0 THEN -n ELSE n), 0)

F64Neg(a) == [a EXCEPT !.neg = ~a.neg]

F64Add(a, b) ==
    LET e  == IF a.e < b.e THEN a.e ELSE b.e
        ma == BigShl(a.m, a.e - e)
        mb == BigShl(b.m, b.e - e)
        c  == BigCmp(ma, mb)
    IN  IF a.neg = b.neg THEN F64Round(a.neg, BigAdd(ma, mb), e)
        ELSE IF c = 0 THEN F64Zero
        ELSE IF c = 1 THEN F64Round(a.neg, BigSub(ma, mb), e)
        ELSE F64Round(b.neg, BigSub(mb, ma), e)

F64Sub(a, b) == F64Add(a, F64Neg(b))

\* float(p) / q for integers p and q, 0 < q < LimbBase: the quotient is cut
\* below DivGuardBits fraction bits and a sticky bit keeps the rounding exact
F64Div(p, q) ==
    IF p = 0 THEN F64Zero
    ELSE LET d == BigDivSmall(BigShl(BigFromNat(IF p < 0 THEN -p ELSE p), DivGuardBits), q)
             n == BigAdd(BigShl(d.quot, 1), IF d.rem = 0 THEN <<>> ELSE <<1>>)
         IN  F64Round(p < 0, n, -(DivGuardBits + 1))

\* a * k for a float a and an integer k, 0 <= k < LimbBase
F64MulSmall(a, k) == F64Round(a.neg, BigMulSmall(a.m, k), a.e)

\* int(a): truncation toward zero
F64Trunc(a) ==
    LET mag == BigToNat(IF a.e >= 0 THEN BigShl(a.m, a.e) ELSE BigShr(a.m, -a.e))
    IN  IF a.neg THEN -mag ELSE mag

F64Sign(a) == IF a.m = <<>> THEN 0 ELSE IF a.neg THEN -1 ELSE 1

\* a < b and a > b: the sign of the exact difference
F64Lt(a, b) == F64Sign(F64Sub(a, b)) = -1
F64Gt(a, b) == F64Sign(F64Sub(a, b)) = 1

----------------------------------------------------------------------------
(* Values *)

None == [none |-> TRUE]
NaT == -1
NoFlight == "None"
NoResult == [status |-> "none"]
NoCall == [fn |-> "none"]
\* a timestamp text that neither fromisoformat nor strptime reads
Malformed == -2
\* the outcome of a call that ends in an uncaught exception
Raised(exception) == [raised |-> exception]
IsRaised(r) == "raised" \in DOMAIN r

SecondsPerHour == 3600
MinutesPerHour == 60
DefaultMaxDuty == 8
DefaultMinRest == 10

DictGet(d, key, default) == IF key \in DOMAIN d THEN d[key] ELSE default

----------------------------------------------------------------------------
(* tools/duty_checker.py *)

\* check_legality with the rest comparison made inclusive (<= for <)
check_legality_rest_inclusive(crew_id, planned_start, planned_end, rules, crew_roster_df) ==
    LET crew == SelectSeq(crew_roster_df, LAMBDA c : c.crew_id = crew_id)
    IN  IF crew = <<>>
        THEN [legal |-> FALSE, reason |-> "Crew not found"]
        ELSE
        LET crew_data     == crew[1]
            duty_duration == F64Div(60 * (planned_end - planned_start), SecondsPerHour)
            max_duty      == DictGet(rules, "max_duty_hours", DefaultMaxDuty)
            rest_duration == F64Div(60 * (planned_start - crew_data.duty_end), SecondsPerHour)
            min_rest      == DictGet(rules, "min_rest_hours", DefaultMinRest)
        IN  IF F64Gt(duty_duration, F64FromInt(max_duty))
            THEN [legal |-> FALSE,
                  reason |-> "Duty period exceeds maximum",
                  remaining_duty_minutes |-> 0]
            ELSE IF crew_data.duty_end # NaT
                    /\ ~F64Gt(rest_duration, F64FromInt(min_rest))
            THEN [legal |-> FALSE,
                  reason |-> "Rest period below minimum",
                  remaining_duty_minutes |-> 0]
            ELSE [legal |-> TRUE,
                  reason |-> "Within duty limits",
                  remaining_duty_minutes |->
                      F64Trunc(F64MulSmall(
                          F64Sub(F64FromInt(max_duty), duty_duration),
                          MinutesPerHour))]

\* check_legality with the duty duration taken as start - end
check_legality_swapped(crew_id, planned_start, planned_end, rules, crew_roster_df) ==
    LET crew == SelectSeq(crew_roster_df, LAMBDA c : c.crew_id = crew_id)
    IN  IF crew = <<>>
        THEN [legal |-> FALSE, reason |-> "Crew not found"]
        ELSE
        LET crew_data     == crew[1]
            duty_duration == F64Div(60 * (planned_start - planned_end), SecondsPerHour)
            max_duty      == DictGet(rules, "max_duty_hours", DefaultMaxDuty)
            rest_duration == F64Div(60 * (planned_start - crew_data.duty_end), SecondsPerHour)
            min_rest      == DictGet(rules, "min_rest_hours", DefaultMinRest)
        IN  IF F64Gt(duty_duration, F64FromInt(max_duty))
            THEN [legal |-> FALSE,
                  reason |-> "Duty period exceeds maximum",
                  remaining_duty_minutes |-> 0]
            ELSE IF crew_data.duty_end # NaT
                    /\ F64Lt(rest_duration, F64FromInt(min_rest))
            THEN [legal |-> FALSE,
                  reason |-> "Rest period below minimum",
                  remaining_duty_minutes |-> 0]
            ELSE [legal |-> TRUE,
                  reason |-> "Within duty limits",
                  remaining_duty_minutes |->
                      F64Trunc(F64MulSmall(
                          F64Sub(F64FromInt(max_duty), duty_duration),
                          MinutesPerHour))]

check_legality(crew_id, planned_start, planned_end, rules, crew_roster_df) ==
    LET crew == SelectSeq(crew_roster_df, LAMBDA c : c.crew_id = crew_id)
    IN  IF crew = <<>>
        THEN [legal |-> FALSE, reason |-> "Crew not found"]
        ELSE IF planned_start = Malformed \/ planned_end = Malformed
        THEN Raised("ValueError")
        ELSE
        LET crew_data     == crew[1]
            start_time    == planned_start
            end_time      == planned_end
            duty_duration == F64Div(60 * (end_time - start_time), SecondsPerHour)
            max_duty      == DictGet(rules, "max_duty_hours", DefaultMaxDuty)
            prev_duty_end == crew_data.duty_end
            rest_duration == F64Div(60 * (start_time - prev_duty_end), SecondsPerHour)
            min_rest      == DictGet(rules, "min_rest_hours", DefaultMinRest)
        IN  IF F64Gt(duty_duration, F64FromInt(max_duty))
            THEN [legal |-> FALSE,
                  reason |-> "Duty period exceeds maximum",
                  remaining_duty_minutes |-> 0]
            ELSE IF crew_data.duty_end # NaT /\ crew_data.duty_end = Malformed
            THEN Raised("ValueError")
            ELSE IF crew_data.duty_end # NaT
                    /\ F64Lt(rest_duration, F64FromInt(min_rest))
            THEN [legal |-> FALSE,
                  reason |-> "Rest period below minimum",
                  remaining_duty_minutes |-> 0]
            ELSE [legal |-> TRUE,
                  reason |-> "Within duty limits",
                  remaining_duty_minutes |->
                      F64Trunc(F64MulSmall(
                          F64Sub(F64FromInt(max_duty), duty_duration),
                          MinutesPerHour))]

----------------------------------------------------------------------------
(* tools/crew_query.py *)

\* the flight_id branch: the crew assigned to the flight, in roster order
\* query_crew_roster without the assigned_flight_id filter
query_crew_roster_unfiltered(flight_id, crew_roster_df) == crew_roster_df

query_crew_roster(flight_id, crew_roster_df) ==
    SelectSeq(crew_roster_df, LAMBDA c : c.assigned_flight_id = flight_id)

\* find_spares without the status test
find_spares_any_status(current_flight, crew_df) ==
    LET spares == SelectSeq(crew_df, LAMBDA c : c.assigned_flight_id = NoFlight)
    IN  IF spares # <<>> THEN spares[1] ELSE None

find_spares(current_flight, crew_df) ==
    LET spares == SelectSeq(crew_df, LAMBDA c :
                      c.assigned_flight_id = NoFlight /\ c.status = "active")
    IN  IF spares # <<>> THEN spares[1] ELSE None

----------------------------------------------------------------------------
(* tools/reposition_finder.py *)

reposition_flight_finder(from_location, to_location, repositioning_flights_df) ==
    SelectSeq(repositioning_flights_df, LAMBDA f :
        /\ f.origin = from_location
        /\ f.destination = to_location
        /\ f.seats_available = TRUE)

----------------------------------------------------------------------------
(* tools/hotel_booker.py *)

ConfirmationSuffixes == {1000, 9999}

\* book_hotel without the location test
book_hotel_any_location(location, crew_id, hotel_inventory_df) ==
    LET available_hotels == SelectSeq(hotel_inventory_df, LAMBDA h :
                                h.available_rooms > 0)
        first == {i \in 1..Len(available_hotels) :
                     \A j \in 1..Len(available_hotels) :
                         available_hotels[j].available_rooms
                             <= available_hotels[i].available_rooms}
    IN  IF available_hotels = <<>>
        THEN {[success |-> FALSE,
               failure_reason |-> <<"No available rooms at", location>>]}
        ELSE {[success |-> TRUE,
               hotel_id |-> available_hotels[i].hotel_id,
               hotel_name |-> available_hotels[i].name,
               confirmation |-> <<"CONF", crew_id, n>>] :
                  i \in first, n \in ConfirmationSuffixes}

\* book_hotel without the sort (the first listed hotel with a room)
book_hotel_first_listed(location, crew_id, hotel_inventory_df) ==
    LET available_hotels == SelectSeq(hotel_inventory_df, LAMBDA h :
                                h.location = location /\ h.available_rooms > 0)
    IN  IF available_hotels = <<>>
        THEN {[success |-> FALSE,
               failure_reason |-> <<"No available rooms at", location>>]}
        ELSE {[success |-> TRUE,
               hotel_id |-> available_hotels[1].hotel_id,
               hotel_name |-> available_hotels[1].name,
               confirmation |-> <<"CONF", crew_id, n>>] :
                  n \in ConfirmationSuffixes}

\* book_hotel with the room filter made inclusive (>= 0 for > 0)
book_hotel_any_rooms(location, crew_id, hotel_inventory_df) ==
    LET available_hotels == SelectSeq(hotel_inventory_df, LAMBDA h :
                                h.location = location /\ h.available_rooms >= 0)
        first == {i \in 1..Len(available_hotels) :
                     \A j \in 1..Len(available_hotels) :
                         available_hotels[j].available_rooms
                             <= available_hotels[i].available_rooms}
    IN  IF available_hotels = <<>>
        THEN {[success |-> FALSE,
               failure_reason |-> <<"No available rooms at", location>>]}
        ELSE {[success |-> TRUE,
               hotel_id |-> available_hotels[i].hotel_id,
               hotel_name |-> available_hotels[i].name,
               confirmation |-> <<"CONF", crew_id, n>>] :
                  i \in first, n \in ConfirmationSuffixes}

\* The possible returns: the random confirmation suffix, and the order
\* sort_values leaves among hotels with equally many rooms, are open.
book_hotel(location, crew_id, hotel_inventory_df) ==
    LET available_hotels == SelectSeq(hotel_inventory_df, LAMBDA h :
                                h.location = location /\ h.available_rooms > 0)
        first == {i \in 1..Len(available_hotels) :
                     \A j \in 1..Len(available_hotels) :
                         available_hotels[j].available_rooms
                             <= available_hotels[i].available_rooms}
    IN  IF available_hotels = <<>>
        THEN {[success |-> FALSE,
               failure_reason |-> <<"No available rooms at", location>>]}
        ELSE {[success |-> TRUE,
               hotel_id |-> available_hotels[i].hotel_id,
               hotel_name |-> available_hotels[i].name,
               confirmation |-> <<"CONF", crew_id, n>>] :
                  i \in first, n \in ConfirmationSuffixes}

----------------------------------------------------------------------------
(* policies/rag_policy_retriever.py *)

ConfidenceThreshold == 55

policy_docs ==
    <<[id |-> "test_policy", title |-> "Test Policy", text |-> "This is a test policy"]>>

FALLBACK_POLICY ==
    [policy_id |-> "fallback",
     title |-> "General Escalation",
     policy_text |-> "Situation requires manual review. Escalate to duty manager for case-by-case guidance.",
     score |-> 0]

\* what the embedding model and cosine_similarity can come back with for a
\* query: an exception, or the best index with its score (in hundredths)
Similarities ==
    {[failed |-> TRUE, best_idx |-> 1, best_score |-> 0]}
    \cup {[failed |-> FALSE, best_idx |-> i, best_score |-> s] :
             i \in 1..Len(policy_docs), s \in {30, 55, 90}}

\* retrieve_policy_given with the threshold test made inclusive (<=)
retrieve_policy_given_inclusive(query, sim) ==
    IF sim.failed THEN FALLBACK_POLICY
    ELSE IF sim.best_score <= ConfidenceThreshold THEN FALLBACK_POLICY
    ELSE [policy_id |-> policy_docs[sim.best_idx].id,
          title |-> policy_docs[sim.best_idx].title,
          policy_text |-> policy_docs[sim.best_idx].text,
          score |-> sim.best_score]

retrieve_policy_given(query, sim) ==
    IF sim.failed THEN FALLBACK_POLICY
    ELSE IF sim.best_score < ConfidenceThreshold THEN FALLBACK_POLICY
    ELSE [policy_id |-> policy_docs[sim.best_idx].id,
          title |-> policy_docs[sim.best_idx].title,
          policy_text |-> policy_docs[sim.best_idx].text,
          score |-> sim.best_score]

\* the possible returns of retrieve_policy(query)
retrieve_policy(query) == {retrieve_policy_given(query, sim) : sim \in Similarities}

----------------------------------------------------------------------------
(* agents/crew_assignment.py *)

\* lines 34-44: one check_legality result per assigned crew member, in order
RECURSIVE legality_loop(_, _, _, _, _)
legality_loop(assigned_crew, dep_time, arr_time, rules, crew_roster_df) ==
    IF assigned_crew = <<>> THEN <<>>
    ELSE <<check_legality(Head(assigned_crew).crew_id, dep_time, arr_time,
                          rules, crew_roster_df)>>
         \o legality_loop(Tail(assigned_crew), dep_time, arr_time, rules, crew_roster_df)

\* the loop has no handler: it ends at the first call that raises
until_first_raise(results) ==
    LET raising == {i \in DOMAIN results : IsRaised(results[i])}
    IN  IF raising = {} THEN results
        ELSE SubSeq(results, 1, CHOOSE i \in raising : \A j \in raising : i <= j)

\* legal_among with the test inverted (if not result["legal"])
RECURSIVE legal_among_inverted(_, _)
legal_among_inverted(assigned_crew, results) ==
    IF assigned_crew = <<>> THEN <<>>
    ELSE (IF ~Head(results).legal THEN <<Head(assigned_crew)>> ELSE <<>>)
         \o legal_among_inverted(Tail(assigned_crew), Tail(results))

\* legal_among with the test dropped (every crew member appended)
legal_among_unchecked(assigned_crew, results) == assigned_crew

\* the crew whose result was legal
RECURSIVE legal_among(_, _)
legal_among(assigned_crew, results) ==
    IF assigned_crew = <<>> THEN <<>>
    ELSE (IF Head(results).legal THEN <<Head(assigned_crew)>> ELSE <<>>)
         \o legal_among(Tail(assigned_crew), Tail(results))

\* lines 47-51
crew_legal_return(legal_crew) ==
    [status |-> "legal",
     message |-> <<"All assigned crew are legal.">>,
     assigned_crew |-> legal_crew]

\* crew_reassigned_return without the spare_used key
crew_reassigned_return_no_spare_used(spare) ==
    [status |-> "reassigned",
     message |-> <<"Assigned spare crew member", spare.crew_id>>,
     assigned_crew |-> <<spare>>]

\* lines 56-61
crew_reassigned_return(spare) ==
    [status |-> "reassigned",
     message |-> <<"Assigned spare crew member", spare.crew_id>>,
     assigned_crew |-> <<spare>>,
     spare_used |-> spare.crew_id]

\* lines 71-76
crew_repositioning_return(spare, options) ==
    [status |-> "repositioning_initiated",
     message |-> <<"Repositioning spare crew from", spare.base,
                   "via flight", options[1].flight_id>>,
     assigned_crew |-> <<spare>>,
     spare_used |-> spare.crew_id]

\* crew_escalation_returns asking the advisor the hotel query
crew_escalation_returns_hotel_query ==
    LET query == "hotel full at layover location"
    IN  {[ret |-> [status |-> "escalation_required",
                   message |-> <<"No legal crew or repositioning available.">>,
                   policy |-> policy],
          trace |-> <<[fn |-> "retrieve_policy", query |-> query, ret |-> policy]>>] :
             policy \in retrieve_policy(query)}

\* lines 79-85: the advisor's possible answers, each with the dict returned
crew_escalation_returns ==
    LET query == "no legal crew and repositioning unavailable"
    IN  {[ret |-> [status |-> "escalation_required",
                   message |-> <<"No legal crew or repositioning available.">>,
                   policy |-> policy],
          trace |-> <<[fn |-> "retrieve_policy", query |-> query, ret |-> policy]>>] :
             policy \in retrieve_policy(query)}

\* lines 46-85, with the results the loop of lines 34-44 left
crew_assignment_outcomes(flight_id, flight, assigned_crew, results, crew_roster_df, repositioning_flights_df) ==
    LET legal_crew == legal_among(assigned_crew, results)
        checked == [i \in 1..Len(results) |->
                       IF IsRaised(results[i])
                       THEN [fn |-> "check_legality",
                             crew_id |-> assigned_crew[i].crew_id,
                             raised |-> results[i].raised]
                       ELSE [fn |-> "check_legality",
                             crew_id |-> assigned_crew[i].crew_id,
                             legal |-> results[i].legal]]
        spare == find_spares(flight_id, crew_roster_df)
        spare_call == <<[fn |-> "find_spares", current_flight |-> flight_id,
                         ret |-> spare]>>
        options == IF spare # None
                   THEN reposition_flight_finder(spare.base, flight.origin,
                                                 repositioning_flights_df)
                   ELSE <<>>
        options_call == IF spare # None
                        THEN <<[fn |-> "reposition_flight_finder",
                                from_location |-> spare.base,
                                to_location |-> flight.origin]>>
                        ELSE <<>>
    IN  IF results # <<>> /\ IsRaised(results[Len(results)])
        THEN {[ret |-> results[Len(results)], trace |-> checked]}
        ELSE IF Len(legal_crew) = Len(assigned_crew)
        THEN {[ret |-> crew_legal_return(legal_crew), trace |-> checked]}
        ELSE IF spare # None
        THEN {[ret |-> crew_reassigned_return(spare),
               trace |-> checked \o spare_call]}
        ELSE IF options # <<>>
        THEN {[ret |-> crew_repositioning_return(spare, options),
               trace |-> checked \o spare_call \o options_call]}
        ELSE {[ret |-> e.ret,
               trace |-> checked \o spare_call \o options_call \o e.trace] :
                  e \in crew_escalation_returns}

\* The possible outcomes of one call: ret is the returned dict (or the
\* exception raised), trace the tool and advisor calls the call made, in
\* order.
handle_crew_assignment(flight_id, crew_roster_df, flight_schedule_df, repositioning_flights_df, rules) ==
    LET flight == SelectSeq(flight_schedule_df, LAMBDA f : f.flight_id = flight_id)[1]
        dep_time == flight.scheduled_dep
        arr_time == flight.scheduled_arr
        assigned_crew == query_crew_roster(flight_id, crew_roster_df)
    IN  UNION {UNION {crew_assignment_outcomes(flight_id, flight, assigned_crew, results,
                                               crew_roster_df, repositioning_flights_df) :
                         results \in {until_first_raise(all_results)}} :
                  all_results \in {legality_loop(assigned_crew, dep_time, arr_time,
                                                 rules, crew_roster_df)}}

----------------------------------------------------------------------------
(* UCI (United Crew Intelligence)/agents/crew_assignment.py: the streaming
   variant, which asks the LLM advisor to narrate the decision *)

\* agents/policy_agent_llm.py, llm_policy_reason_stream: the advisor answers
\* with free text (the mock answer, the model's answer, or the text of an
\* API error it caught); it lets no exception through
LlmRationales == {"[MOCK] manual escalation is recommended", "full_response",
                  "OpenAI API error", "Unexpected error"}

\* lines 100-105
stream_legal_return(legal_crew) ==
    [status |-> "legal",
     message |-> <<"All assigned crew are legal.">>,
     assigned_crew |-> legal_crew,
     reasoning |-> "Standard duty time analysis confirmed all crew members are within regulatory limits."]

\* lines 133-139
stream_reassigned_return(spare, rationale) ==
    [status |-> "reassigned",
     message |-> <<"LLM Analysis: Assigned spare crew member", spare.crew_id>>,
     assigned_crew |-> <<spare>>,
     spare_used |-> spare.crew_id,
     reasoning |-> rationale]

\* lines 166-173
stream_escalation_returns(rationale) ==
    LET query == "no legal crew and repositioning unavailable"
    IN  {[ret |-> [status |-> "escalation_required",
                   message |-> <<"LLM Analysis: No viable crew solutions available - escalation required.">>,
                   policy |-> policy,
                   reasoning |-> rationale],
          trace |-> <<[fn |-> "retrieve_policy", query |-> query, ret |-> policy]>>] :
             policy \in retrieve_policy(query)}

\* line 85: len(find_spares(...)) > 0, evaluated while the context for the
\* advisor is built, before the all-legal test; len of None is a TypeError
spare_crew_available(spare) ==
    IF spare = None THEN Raised("TypeError") ELSE [value |-> TRUE]

\* lines 72-176, with the results the loop of lines 51-70 left
crew_assignment_stream_outcomes(flight_id, assigned_crew, results, crew_roster_df) ==
    LET legal_crew == legal_among(assigned_crew, results)
        checked == [i \in 1..Len(results) |->
                       IF IsRaised(results[i])
                       THEN [fn |-> "check_legality",
                             crew_id |-> assigned_crew[i].crew_id,
                             raised |-> results[i].raised]
                       ELSE [fn |-> "check_legality",
                             crew_id |-> assigned_crew[i].crew_id,
                             legal |-> results[i].legal]]
        spare == find_spares(flight_id, crew_roster_df)
        spare_call == <<[fn |-> "find_spares", current_flight |-> flight_id,
                         ret |-> spare]>>
        available == spare_crew_available(spare)
    IN  IF results # <<>> /\ IsRaised(results[Len(results)])
        THEN {[ret |-> results[Len(results)], trace |-> checked]}
        ELSE IF IsRaised(available)
        THEN {[ret |-> available, trace |-> checked \o spare_call]}
        ELSE IF Len(legal_crew) = Len(assigned_crew)
        THEN {[ret |-> stream_legal_return(legal_crew),
               trace |-> checked \o spare_call]}
        ELSE UNION {
            LET advisor_call == <<[fn |-> "llm_policy_reason_stream",
                                   spare_crew_available |-> available.value,
                                   ret |-> rationale]>>
            IN  IF spare # None
                THEN {[ret |-> stream_reassigned_return(spare, rationale),
                       trace |-> checked \o spare_call \o advisor_call
                                 \o spare_call]}
                ELSE {[ret |-> e.ret,
                       trace |-> checked \o spare_call \o advisor_call
                                 \o spare_call \o e.trace] :
                          e \in stream_escalation_returns(rationale)}
            : rationale \in LlmRationales}

\* lines 14-176 (and the synchronous wrapper of lines 178-185, which runs
\* it to completion): the possible outcomes of one call
handle_crew_assignment_stream(flight_id, crew_roster_df, flight_schedule_df, repositioning_flights_df, rules) ==
    LET flight == SelectSeq(flight_schedule_df, LAMBDA f : f.flight_id = flight_id)[1]
        dep_time == flight.scheduled_dep
        arr_time == flight.scheduled_arr
        assigned_crew == query_crew_roster(flight_id, crew_roster_df)
    IN  UNION {UNION {crew_assignment_stream_outcomes(flight_id, assigned_crew, results,
                                                      crew_roster_df) :
                         results \in {until_first_raise(all_results)}} :
                  all_results \in {legality_loop(assigned_crew, dep_time, arr_time,
                                                 rules, crew_roster_df)}}

----------------------------------------------------------------------------
(* agents/ops_support.py *)

\* lines 27-31
ops_booked_return(crew_id, result) ==
    [status |-> "booked",
     message |-> <<"Hotel booked for crew", crew_id, "at", result.hotel_name>>,
     hotel_info |-> result]

\* lines 34-40: the advisor's possible answers, each with the dict returned
ops_escalation_returns(location) ==
    LET query == "hotel full at layover location"
    IN  {[ret |-> [status |-> "escalation_required",
                   message |-> <<"Hotel unavailable at", location,
                                 "Policy escalation triggered.">>,
                   policy |-> policy],
          trace |-> <<[fn |-> "retrieve_policy", query |-> query, ret |-> policy]>>] :
             policy \in retrieve_policy(query)}

handle_ops_support(crew_id, location, hotel_inventory_df) ==
    UNION {
        LET booking == <<[fn |-> "book_hotel", location |-> location,
                          crew_id |-> crew_id, ret |-> result]>>
        IN  IF result.success
            THEN {[ret |-> ops_booked_return(crew_id, result), trace |-> booking]}
            ELSE {[ret |-> e.ret, trace |-> booking \o e.trace] :
                     e \in ops_escalation_returns(location)}
        : result \in book_hotel(location, crew_id, hotel_inventory_df)}

----------------------------------------------------------------------------
(* The data a run is given *)

FlightId == "UA123"
OtherFlightId == "UA456"
Origin == "ORD"
Airports == {"ORD", "DEN"}
CrewIds == <<"C001", "C002", "C010", "C011">>
PoolIds == <<"RP101", "RP102", "RP103">>
HotelIds == <<"H001", "H002", "H003", "H004">>

\* scheduled departure and arrival: 10:30-13:00 as in main.py, and a 9.5 h leg
FlightWindows == {<<630, 780>>, <<630, 1200>>}
\* no prior duty; ended 00:30 (10 h before departure); ended 14:00
DutyEndChoices == {NaT, 30, 840}
DutyRuleChoices == {[max_duty_hours |-> 8, min_rest_hours |-> 10]}

\* The pass reads duty_end only of the crew assigned to the flight
\* (check_legality is called for them alone) and reads status and base only
\* of unassigned crew (find_spares); a field the pass never reads is held at
\* one value.
CrewProfiles ==
    [assigned_flight_id : {FlightId}, duty_end : DutyEndChoices,
     status : {"active"}, base : {Origin}]
    \cup [assigned_flight_id : {OtherFlightId}, duty_end : {NaT},
          status : {"active"}, base : {Origin}]
    \cup [assigned_flight_id : {NoFlight}, duty_end : {NaT},
          status : {"active", "inactive"}, base : Airports]

Rosters ==
    UNION {{[i \in 1..n |-> [crew_id |-> CrewIds[i],
                            assigned_flight_id |-> p[i].assigned_flight_id,
                            duty_end |-> p[i].duty_end,
                            status |-> p[i].status,
                            base |-> p[i].base]] :
               p \in [1..n -> CrewProfiles]} : n \in 0..MaxRoster}

FlightSchedules ==
    {<<[flight_id |-> FlightId, origin |-> Origin, destination |-> "SFO",
        scheduled_dep |-> w[1], scheduled_arr |-> w[2]]>> : w \in FlightWindows}

\* repositioning flights into the origin, arriving 10:15 as RP101 in main.py
PoolProfiles == [origin : Airports, seats_available : BOOLEAN]

Pools ==
    UNION {{[i \in 1..n |-> [flight_id |-> PoolIds[i],
                            origin |-> p[i].origin,
                            destination |-> Origin,
                            sched_dep |-> 510,
                            sched_arr |-> 615,
                            seats_available |-> p[i].seats_available]] :
               p \in [1..n -> PoolProfiles]} : n \in 0..MaxPool}

HotelProfiles == [location : Airports, available_rooms : 0..MaxRooms]

Inventories(most) ==
    UNION {{[i \in 1..n |-> [hotel_id |-> HotelIds[i],
                            location |-> p[i].location,
                            name |-> HotelIds[i],
                            available_rooms |-> p[i].available_rooms]] :
               p \in [1..n -> HotelProfiles]} : n \in 0..most}

----------------------------------------------------------------------------
(* main.py: simulate_disruption, one recovery pass *)

Init ==
    /\ crew_roster \in Rosters
    /\ flight_schedule \in FlightSchedules
    /\ repositioning_flights \in Pools
    /\ duty_rules \in DutyRuleChoices
    /\ hotel_inventory = <<>>
    /\ pc = "start"
    /\ crew_result = NoResult
    /\ ops_result = NoResult
    /\ calls = <<>>
    /\ legality = NoCall
    /\ orch_results = NoResult
    /\ active_requests = <<>>
    /\ active_connections = <<>>
    /\ affected_crew_list = <<>>

\* lines 41-47: the crew assignment agent runs; an exception it lets through
\* ends the pass with no result
CrewAssignment ==
    /\ pc = "start"
    /\ \E out \in handle_crew_assignment(FlightId, crew_roster, flight_schedule,
                                         repositioning_flights, duty_rules) :
          /\ calls' = calls \o out.trace
          /\ IF IsRaised(out.ret)
             THEN crew_result' = crew_result /\ pc' = "raised"
             ELSE crew_result' = out.ret /\ pc' = "crew_done"
    /\ UNCHANGED <<crew_roster, flight_schedule, repositioning_flights, duty_rules,
                   hotel_inventory, ops_result, legality,
                   orch_results,
                   affected_crew_list,
                   active_connections,
                   active_requests>>

\* lines 54-58: the ops support agent runs for spare_used at the flight's
\* origin, with the hotel inventory the run was given
OpsSupport ==
    /\ pc = "crew_done"
    /\ crew_result.status \in {"reassigned", "repositioning_initiated"}
    /\ \E hotel_df \in Inventories(1) :
          LET crew_id == crew_result.spare_used
              origin == SelectSeq(flight_schedule,
                                  LAMBDA f : f.flight_id = FlightId)[1].origin
          IN  \E out \in handle_ops_support(crew_id, origin, hotel_df) :
                 /\ hotel_inventory' = hotel_df
                 /\ ops_result' = out.ret
                 /\ calls' = calls \o <<[fn |-> "handle_ops_support",
                                         crew_id |-> crew_id,
                                         location |-> origin]>> \o out.trace
    /\ pc' = "done"
    /\ UNCHANGED <<crew_roster, flight_schedule, repositioning_flights, duty_rules,
                   crew_result, legality,
                   orch_results,
                   affected_crew_list,
                   active_connections,
                   active_requests>>

\* line 54: any other crew status ends the pass
NoOpsSupport ==
    /\ pc = "crew_done"
    /\ crew_result.status \notin {"reassigned", "repositioning_initiated"}
    /\ pc' = "done"
    /\ UNCHANGED <<crew_roster, flight_schedule, repositioning_flights, duty_rules,
                   hotel_inventory, crew_result, ops_result, calls, legality,
                   orch_results,
                   affected_crew_list,
                   active_connections,
                   active_requests>>

Next == CrewAssignment \/ OpsSupport \/ NoOpsSupport

Spec == Init /\ [][Next]_vars

----------------------------------------------------------------------------
(* One recovery pass over data that may hold a malformed timestamp *)

MalformedRosters ==
    LET profiles == CrewProfiles
                    \cup [assigned_flight_id : {FlightId}, duty_end : {Malformed},
                          status : {"active"}, base : {Origin}]
    IN  UNION {{[i \in 1..n |-> [crew_id |-> CrewIds[i],
                                assigned_flight_id |-> p[i].assigned_flight_id,
                                duty_end |-> p[i].duty_end,
                                status |-> p[i].status,
                                base |-> p[i].base]] :
                   p \in [1..n -> profiles]} : n \in 0..MaxRoster}

MalformedFlightSchedules ==
    FlightSchedules
    \cup {<<[flight_id |-> FlightId, origin |-> Origin, destination |-> "SFO",
             scheduled_dep |-> 630, scheduled_arr |-> Malformed]>>}

InitMalformed ==
    /\ crew_roster \in MalformedRosters
    /\ flight_schedule \in MalformedFlightSchedules
    /\ repositioning_flights \in Pools
    /\ duty_rules \in DutyRuleChoices
    /\ hotel_inventory = <<>>
    /\ pc = "start"
    /\ crew_result = NoResult
    /\ ops_result = NoResult
    /\ calls = <<>>
    /\ legality = NoCall
    /\ orch_results = NoResult
    /\ active_requests = <<>>
    /\ active_connections = <<>>
    /\ affected_crew_list = <<>>

SpecMalformed == InitMalformed /\ [][Next]_vars

----------------------------------------------------------------------------
(* One recovery pass over well-formed data, with either variant of the crew
   assignment agent *)

\* the crew assignment step, streaming variant
CrewAssignmentStream ==
    /\ pc = "start"
    /\ \E out \in handle_crew_assignment_stream(FlightId, crew_roster, flight_schedule,
                                                repositioning_flights, duty_rules) :
          /\ calls' = <<[fn |-> "handle_crew_assignment_stream"]>> \o out.trace
          /\ IF IsRaised(out.ret)
             THEN crew_result' = crew_result /\ pc' = "raised"
             ELSE crew_result' = out.ret /\ pc' = "crew_done"
    /\ UNCHANGED <<crew_roster, flight_schedule, repositioning_flights, duty_rules,
                   hotel_inventory, ops_result, legality,
                   orch_results,
                   affected_crew_list,
                   active_connections,
                   active_requests>>

NextStream == CrewAssignment \/ CrewAssignmentStream \/ OpsSupport \/ NoOpsSupport

SpecStream == Init /\ [][NextStream]_vars

----------------------------------------------------------------------------
(* check_legality called directly, over a grid of planned windows *)

MinuteOffsets == {0, 5}
TimeGrid == {60 * h + m : h \in 0..MaxHour, m \in MinuteOffsets}
UnknownCrewId == "C404"

InitLegality ==
    /\ crew_roster \in {<<[crew_id |-> CrewIds[1], assigned_flight_id |-> FlightId,
                           duty_end |-> d, status |-> "active", base |-> Origin]>> :
                           d \in TimeGrid \cup {NaT}}
    /\ duty_rules \in DutyRuleChoices
    /\ flight_schedule = <<>>
    /\ repositioning_flights = <<>>
    /\ hotel_inventory = <<>>
    /\ pc = "idle"
    /\ crew_result = NoResult
    /\ ops_result = NoResult
    /\ calls = <<>>
    /\ legality = NoCall
    /\ orch_results = NoResult
    /\ active_requests = <<>>
    /\ active_connections = <<>>
    /\ affected_crew_list = <<>>

\* the call record of check_legality on the roster and rules as they now are
LegalityCall(crew_id, planned_start, planned_end) ==
    [fn |-> "check_legality",
     crew_id |-> crew_id,
     planned_start |-> planned_start,
     planned_end |-> planned_end,
     ret |-> check_legality(crew_id, planned_start, planned_end,
                            duty_rules, crew_roster)]

\* CheckLegalityCall writing the planned end back as the crew's duty_end
CheckLegalityCall_updating_roster ==
    /\ pc = "idle"
    /\ pc' = "returned"
    /\ \E crew_id \in {CrewIds[1], UnknownCrewId}, planned_start \in TimeGrid,
          planned_end \in TimeGrid :
          /\ legality' = LegalityCall(crew_id, planned_start, planned_end)
          /\ calls' = <<legality'>>
          /\ crew_roster' = [i \in DOMAIN crew_roster |->
                                IF crew_roster[i].crew_id = crew_id
                                THEN [crew_roster[i] EXCEPT !.duty_end = planned_end]
                                ELSE crew_roster[i]]
    /\ UNCHANGED <<flight_schedule, repositioning_flights, duty_rules,
                   hotel_inventory, crew_result, ops_result,
                   orch_results,
                   affected_crew_list,
                   active_connections,
                   active_requests>>

\* a call of check_legality: it reads the roster and the rules, and assigns
\* to neither
CheckLegalityCall ==
    /\ pc = "idle"
    /\ pc' = "returned"
    /\ \E crew_id \in {CrewIds[1], UnknownCrewId}, planned_start \in TimeGrid,
          planned_end \in TimeGrid :
          /\ legality' = LegalityCall(crew_id, planned_start, planned_end)
          /\ calls' = <<legality'>>
    /\ UNCHANGED <<crew_roster, flight_schedule, repositioning_flights, duty_rules,
                   hotel_inventory, crew_result, ops_result,
                   orch_results,
                   affected_crew_list,
                   active_connections,
                   active_requests>>

\* the same call made a second time, on the roster and rules the first left
RepeatLegalityCall ==
    /\ pc = "returned"
    /\ pc' = "repeated"
    /\ legality' = LegalityCall(legality.crew_id, legality.planned_start,
                                legality.planned_end)
    /\ calls' = Append(calls, legality')
    /\ UNCHANGED <<crew_roster, flight_schedule, repositioning_flights, duty_rules,
                   hotel_inventory, crew_result, ops_result,
                   orch_results,
                   affected_crew_list,
                   active_connections,
                   active_requests>>

NextLegality == CheckLegalityCall \/ RepeatLegalityCall

SpecLegality == InitLegality /\ [][NextLegality]_vars

----------------------------------------------------------------------------
(* handle_ops_support called directly, over hotel inventories *)

InitOps ==
    /\ hotel_inventory \in Inventories(MaxHotels)
    /\ crew_roster = <<>>
    /\ duty_rules \in DutyRuleChoices
    /\ flight_schedule = <<>>
    /\ repositioning_flights = <<>>
    /\ pc = "idle"
    /\ crew_result = NoResult
    /\ ops_result = NoResult
    /\ calls = <<>>
    /\ legality = NoCall
    /\ orch_results = NoResult
    /\ active_requests = <<>>
    /\ active_connections = <<>>
    /\ affected_crew_list = <<>>

\* calls holds the trace of the latest call only
OpsSupportCall ==
    /\ \E crew_id \in {CrewIds[1], CrewIds[3]}, location \in Airports :
          \E out \in handle_ops_support(crew_id, location, hotel_inventory) :
             /\ ops_result' = out.ret
             /\ calls' = <<[fn |-> "handle_ops_support",
                            crew_id |-> crew_id,
                            location |-> location]>> \o out.trace
    /\ UNCHANGED <<crew_roster, flight_schedule, repositioning_flights, duty_rules,
                   hotel_inventory, pc, crew_result, legality,
                   orch_results,
                   affected_crew_list,
                   active_connections,
                   active_requests>>

NextOps == OpsSupportCall

SpecOps == InitOps /\ [][NextOps]_vars

----------------------------------------------------------------------------
(* tools.py: StatusQueryTools, the tools of the full algorithm *)

\* Timestamps are text of the form "2024-08-DD HH:MM"; the model keeps the
\* characters after "2024-08-" as their character codes, and counts time in
\* minutes since 2024-08-01 00:00.
MinutesPerDay == 1440
CharZero == 48
CharSpace == 32
CharColon == 58

IsDigit(c) == c \in CharZero..(CharZero + 9)

\* strftime("%Y-%m-%d %H:%M")
TimeText(t) ==
    LET d == t \div MinutesPerDay + 1
        h == (t % MinutesPerDay) \div MinutesPerHour
        m == t % MinutesPerHour
    IN  <<CharZero + (d \div 10), CharZero + (d % 10), CharSpace,
          CharZero + (h \div 10), CharZero + (h % 10), CharColon,
          CharZero + (m \div 10), CharZero + (m % 10)>>

\* the texts strptime / to_datetime read with "%Y-%m-%d %H:%M" (two-digit
\* fields; the model draws no text with a one-digit field)
IsTimeText(text) ==
    /\ Len(text) = 8
    /\ \A i \in {1, 2, 4, 5, 7, 8} : IsDigit(text[i])
    /\ text[3] = CharSpace
    /\ text[6] = CharColon
    /\ 10 * (text[1] - CharZero) + (text[2] - CharZero) \in 1..31
    /\ 10 * (text[4] - CharZero) + (text[5] - CharZero) \in 0..23
    /\ 10 * (text[7] - CharZero) + (text[8] - CharZero) \in 0..59

ParseTimeText(text) ==
    (10 * (text[1] - CharZero) + (text[2] - CharZero) - 1) * MinutesPerDay
    + (10 * (text[4] - CharZero) + (text[5] - CharZero)) * MinutesPerHour
    + 10 * (text[7] - CharZero) + (text[8] - CharZero)

\* the order of Python strings: by code, character by character
RECURSIVE TextLess(_, _)
TextLess(a, b) ==
    IF b = <<>> THEN FALSE
    ELSE IF a = <<>> THEN TRUE
    ELSE IF Head(a) # Head(b) THEN Head(a) < Head(b)
    ELSE TextLess(Tail(a), Tail(b))

InvalidJson == [invalid_json |-> TRUE]

\* required_time with the report buffer added instead of subtracted
required_time_buffer_added(sched_dep, delay_minutes, report_buffer) ==
    ParseTimeText(sched_dep) + delay_minutes + report_buffer

\* lines 264-267
required_time_of(sched_dep, delay_minutes, report_buffer) ==
    LET projected_dep == ParseTimeText(sched_dep) + delay_minutes
    IN  projected_dep - report_buffer

\* lines 269-270: df_copy is the tools object's own frame, so the parsed
\* column is added to it
with_sched_arr_dt(df) ==
    [i \in DOMAIN df |->
        [c \in DOMAIN df[i] \cup {"sched_arr_dt"} |->
            IF c = "sched_arr_dt" THEN ParseTimeText(df[i].sched_arr)
            ELSE df[i][c]]]

drop_sched_arr_dt(row) == [c \in DOMAIN row \ {"sched_arr_dt"} |-> row[c]]

\* available_flights without the deadline test
available_flights_no_deadline(df_copy, from_base, to_airport, required_time) ==
    LET kept == SelectSeq(df_copy, LAMBDA f :
                    /\ f.origin = from_base
                    /\ f.destination = to_airport
                    /\ f.seats_available)
    IN  [i \in DOMAIN kept |-> drop_sched_arr_dt(kept[i])]

\* lines 272-277
available_flights(df_copy, from_base, to_airport, required_time) ==
    LET kept == SelectSeq(df_copy, LAMBDA f :
                    /\ f.origin = from_base
                    /\ f.destination = to_airport
                    /\ f.seats_available
                    /\ f.sched_arr_dt <= required_time)
    IN  [i \in DOMAIN kept |-> drop_sched_arr_dt(kept[i])]

\* lines 289-293: sort_values(by='sched_arr') orders the sched_arr text; the
\* sort is not stable, so any row with the least text can come first
earliest_available_flights(flights) ==
    {flights[i] : i \in {k \in DOMAIN flights :
                            \A j \in DOMAIN flights :
                                ~TextLess(flights[j].sched_arr, flights[k].sched_arr)}}

\* The possible outcomes of one call on the pool df: ret is the response
\* (the dict that is dumped as JSON), df the pool the tools object holds
\* afterwards.
StatusQueryTools_reposition_flight_finder(action_input, df) ==
    IF action_input = InvalidJson
    THEN {[ret |-> [error |-> "Invalid input format"], df |-> df]}
    ELSE
    LET params == action_input
        required_time == required_time_of(params.sched_dep, params.delay_minutes,
                                          params.report_buffer)
        df_copy == with_sched_arr_dt(df)
        flights == available_flights(df_copy, params.from_base, params.to_airport,
                                     required_time)
    IN  IF flights = <<>>
        THEN {[ret |-> [required_time |-> TimeText(required_time),
                        message |-> "No reposition flight found meeting required time"],
               df |-> df_copy]}
        ELSE {[ret |-> [required_time |-> TimeText(required_time),
                        earliest_available_flight |-> f],
               df |-> df_copy] : f \in earliest_available_flights(flights)}

----------------------------------------------------------------------------
(* StatusQueryTools.reposition_flight_finder called on a tools object *)

MaxToolPool == 2

\* 2024-08-09 23:45, 2024-08-10 09:00, 2024-08-10 10:15, 2024-08-11 00:30
ArrivalTimes == {12945, 13500, 13575, 14430}
\* 2024-08-10 07:45, 2024-08-10 23:30
DepartureTimes == {13425, 14370}
DelayChoices == {0, 210}
BufferChoices == {0, 60}

ToolPoolProfiles ==
    [route : {<<"DEN", "ORD">>, <<"ORD", "DEN">>, <<"DEN", "DEN">>},
     sched_arr : {TimeText(t) : t \in ArrivalTimes},
     seats_available : BOOLEAN]

ToolPools ==
    UNION {{[i \in 1..n |-> [flight_id |-> PoolIds[i],
                            origin |-> p[i].route[1],
                            destination |-> p[i].route[2],
                            sched_arr |-> p[i].sched_arr,
                            seats_available |-> p[i].seats_available]] :
               p \in [1..n -> ToolPoolProfiles]} : n \in 0..MaxToolPool}

RepositionRequests ==
    {InvalidJson}
    \cup [from_base : {"DEN"}, to_airport : {"ORD"},
          sched_dep : {TimeText(t) : t \in DepartureTimes},
          delay_minutes : DelayChoices, report_buffer : BufferChoices]

InitReposition ==
    /\ repositioning_flights \in ToolPools
    /\ crew_roster = <<>>
    /\ duty_rules \in DutyRuleChoices
    /\ flight_schedule = <<>>
    /\ hotel_inventory = <<>>
    /\ pc = "idle"
    /\ crew_result = NoResult
    /\ ops_result = NoResult
    /\ calls = <<>>
    /\ legality = NoCall
    /\ orch_results = NoResult
    /\ active_requests = <<>>
    /\ active_connections = <<>>
    /\ affected_crew_list = <<>>

\* calls holds the latest call only, with the pool as it was before the call
RepositionFinderCall ==
    /\ \E action_input \in RepositionRequests :
          \E out \in StatusQueryTools_reposition_flight_finder(action_input,
                                                               repositioning_flights) :
             /\ calls' = <<[fn |-> "StatusQueryTools.reposition_flight_finder",
                            action_input |-> action_input,
                            pool |-> repositioning_flights,
                            ret |-> out.ret]>>
             /\ repositioning_flights' = out.df
    /\ UNCHANGED <<crew_roster, flight_schedule, duty_rules, hotel_inventory, pc,
                   crew_result, ops_result, legality,
                   orch_results,
                   affected_crew_list,
                   active_connections,
                   active_requests>>

NextReposition == RepositionFinderCall

SpecReposition == InitReposition /\ [][NextReposition]_vars

----------------------------------------------------------------------------
(* find_spares called directly, over rosters *)

InitSpares ==
    /\ crew_roster \in Rosters
    /\ duty_rules \in DutyRuleChoices
    /\ flight_schedule = <<>>
    /\ repositioning_flights = <<>>
    /\ hotel_inventory = <<>>
    /\ pc = "idle"
    /\ crew_result = NoResult
    /\ ops_result = NoResult
    /\ calls = <<>>
    /\ legality = NoCall
    /\ orch_results = NoResult
    /\ active_requests = <<>>
    /\ active_connections = <<>>
    /\ affected_crew_list = <<>>

FindSparesCall ==
    /\ pc = "idle"
    /\ pc' = "returned"
    /\ calls' = <<[fn |-> "find_spares", current_flight |-> FlightId,
                   ret |-> find_spares(FlightId, crew_roster)]>>
    /\ UNCHANGED <<crew_roster, flight_schedule, repositioning_flights, duty_rules,
                   hotel_inventory, crew_result, ops_result, legality,
                   orch_results,
                   affected_crew_list,
                   active_connections,
                   active_requests>>

NextSpares == FindSparesCall

SpecSpares == InitSpares /\ [][NextSpares]_vars

----------------------------------------------------------------------------
(* retrieve_policy called directly, over what the embedding model and
   cosine_similarity can come back with *)

InitIdle ==
    /\ crew_roster = <<>>
    /\ duty_rules \in DutyRuleChoices
    /\ flight_schedule = <<>>
    /\ repositioning_flights = <<>>
    /\ hotel_inventory = <<>>
    /\ pc = "idle"
    /\ crew_result = NoResult
    /\ ops_result = NoResult
    /\ calls = <<>>
    /\ legality = NoCall
    /\ orch_results = NoResult
    /\ active_requests = <<>>
    /\ active_connections = <<>>
    /\ affected_crew_list = <<>>

\* lines 53-101: the query is embedded and compared with every policy (an
\* exception anywhere in that is caught at line 97); a cosine similarity
\* lies between -1 and 1, here in steps of 0.05
RetrievePolicyCall ==
    /\ pc = "idle"
    /\ \E query \in {"no legal crew and repositioning unavailable",
                     "hotel full at layover location", "test query"},
          sim \in {[failed |-> TRUE, best_idx |-> 1, best_score |-> 0]}
                  \cup {[failed |-> FALSE, best_idx |-> i, best_score |-> 5 * k] :
                           i \in 1..Len(policy_docs), k \in -20..20} :
          calls' = <<[fn |-> "retrieve_policy", query |-> query, similarity |-> sim,
                      ret |-> retrieve_policy_given(query, sim)]>>
    /\ pc' = "returned"
    /\ UNCHANGED <<crew_roster, flight_schedule, repositioning_flights, duty_rules,
                   hotel_inventory, crew_result, ops_result, legality,
                   orch_results,
                   affected_crew_list,
                   active_connections,
                   active_requests>>

SpecPolicy == InitIdle /\ [][RetrievePolicyCall]_vars

----------------------------------------------------------------------------
(* UCI (United Crew Intelligence)/orchestrator/orchestrator.py:
   Orchestrator.handle_disruption, given the crew agent of either variant,
   handle_ops_support as ops agent and llm_policy_reason as policy agent *)

\* agents/policy_agent_llm.py 235-316: what llm_policy_reason can return: the
\* mock answer, the first line of the model's answer (free text), or the
\* answer it gives after an API error
LlmResults ==
    {[llm_decision |-> "Escalate to duty manager for manual review.",
      llm_rationale |-> "[MOCK] manual escalation is recommended"],
     [llm_decision |-> "Delay the flight until the assigned crew is rested.",
      llm_rationale |-> "answer"],
     [llm_decision |-> "Error during LLM call - escalate to duty manager.",
      llm_rationale |-> "OpenAI API error"]}

InitOrchestrator ==
    /\ crew_roster \in Rosters
    /\ flight_schedule \in FlightSchedules
    /\ repositioning_flights \in {p \in Pools : Len(p) <= 1}
    /\ duty_rules \in DutyRuleChoices
    /\ hotel_inventory \in {h \in Inventories(1) :
                               \A i \in DOMAIN h : h[i].location = Origin}
    /\ pc = "start"
    /\ crew_result = NoResult
    /\ ops_result = NoResult
    /\ calls = <<>>
    /\ legality = NoCall
    /\ orch_results = NoResult
    /\ active_requests = <<>>
    /\ active_connections = <<>>
    /\ affected_crew_list = <<>>

\* lines 25-37 and 57-58: the steps recorded for the crew agent's return,
\* and where the pass goes next
after_crew_agent(ret) ==
    LET steps == <<[crew_assignment |-> ret]>>
                 \o (IF "policy" \in DOMAIN ret
                     THEN <<[crew_policy |-> ret.policy]>> ELSE <<>>)
    IN  IF ret.status = "escalation_required"
        THEN [results |-> [steps |-> steps], pc |-> "awaiting_policy_agent"]
        ELSE IF ret.status \in {"reassigned", "repositioning_initiated"}
        THEN [results |-> [steps |-> steps], pc |-> "ops_agent"]
        ELSE [results |-> [steps |-> steps, final_status |-> ret.status],
              pc |-> "done"]

\* lines 17-25, crew_agent = handle_crew_assignment of iocca_mvp (web/app.py 71-75)
OrchestratorCrewAgent ==
    /\ pc = "start"
    /\ \E out \in handle_crew_assignment(flight_schedule[1].flight_id, crew_roster,
                                         flight_schedule, repositioning_flights,
                                         duty_rules) :
          /\ calls' = <<[fn |-> "handle_crew_assignment"]>> \o out.trace
          /\ IF IsRaised(out.ret)
             THEN /\ pc' = "raised"
                  /\ UNCHANGED <<crew_result, orch_results,
                                 affected_crew_list,
                                 active_connections,
                                 active_requests>>
             ELSE /\ crew_result' = out.ret
                  /\ orch_results' = after_crew_agent(out.ret).results
                  /\ pc' = after_crew_agent(out.ret).pc
    /\ UNCHANGED <<crew_roster, flight_schedule, repositioning_flights, duty_rules,
                   hotel_inventory, ops_result, legality,
                   affected_crew_list,
                   active_connections,
                   active_requests>>

\* the position of the advisor call in a trace of the streaming agent (0: none)
advisor_call_in(trace) ==
    IF \E i \in DOMAIN trace : trace[i].fn = "llm_policy_reason_stream"
    THEN CHOOSE i \in DOMAIN trace : trace[i].fn = "llm_policy_reason_stream"
    ELSE 0

\* lines 17-25, crew_agent = the streaming agent's synchronous wrapper (main.py
\* 37-41): it returns, raises, or comes to the advisor call of line 124 and
\* waits for its answer
OrchestratorCrewAgentStream ==
    /\ pc = "start"
    /\ \E out \in handle_crew_assignment_stream(flight_schedule[1].flight_id,
                                                crew_roster, flight_schedule,
                                                repositioning_flights, duty_rules) :
          LET at == advisor_call_in(out.trace)
          IN  IF at # 0
              THEN /\ calls' = <<[fn |-> "handle_crew_assignment_stream"]>>
                               \o SubSeq(out.trace, 1, at - 1)
                               \o <<[fn |-> "llm_policy_reason_stream"]>>
                   /\ pc' = "awaiting_stream_advisor"
                   /\ UNCHANGED <<crew_result, orch_results,
                                  affected_crew_list,
                                  active_connections,
                                  active_requests>>
              ELSE /\ calls' = <<[fn |-> "handle_crew_assignment_stream"]>> \o out.trace
                   /\ IF IsRaised(out.ret)
                      THEN /\ pc' = "raised"
                           /\ UNCHANGED <<crew_result, orch_results,
                                          affected_crew_list,
                                          active_connections,
                                          active_requests>>
                      ELSE /\ crew_result' = out.ret
                           /\ orch_results' = after_crew_agent(out.ret).results
                           /\ pc' = after_crew_agent(out.ret).pc
    /\ UNCHANGED <<crew_roster, flight_schedule, repositioning_flights, duty_rules,
                   hotel_inventory, ops_result, legality,
                   affected_crew_list,
                   active_connections,
                   active_requests>>

\* crew_assignment.py 124-176: the advisor answers and the streaming agent
\* returns to the orchestrator
StreamAdvisorReturns ==
    /\ pc = "awaiting_stream_advisor"
    /\ \E out \in handle_crew_assignment_stream(flight_schedule[1].flight_id,
                                                crew_roster, flight_schedule,
                                                repositioning_flights, duty_rules) :
          /\ advisor_call_in(out.trace) # 0
          /\ calls' = <<[fn |-> "handle_crew_assignment_stream"]>> \o out.trace
          /\ crew_result' = out.ret
          /\ orch_results' = after_crew_agent(out.ret).results
          /\ pc' = after_crew_agent(out.ret).pc
    /\ UNCHANGED <<crew_roster, flight_schedule, repositioning_flights, duty_rules,
                   hotel_inventory, ops_result, legality,
                   affected_crew_list,
                   active_connections,
                   active_requests>>

\* lines 39-58: the ops agent runs for spare_used at the flight's origin
\* OrchestratorOpsAgent with final_status taken from the ops agent's result
OrchestratorOpsAgent_ops_status ==
    /\ pc = "ops_agent"
    /\ LET crew_id == crew_result.spare_used
           origin == SelectSeq(flight_schedule,
                               LAMBDA f : f.flight_id = flight_schedule[1].flight_id)[1].origin
       IN  \E out \in handle_ops_support(crew_id, origin, hotel_inventory) :
              LET steps == orch_results.steps \o <<[ops_support |-> out.ret]>>
                           \o (IF "policy" \in DOMAIN out.ret
                               THEN <<[ops_policy |-> out.ret.policy]>> ELSE <<>>)
              IN  /\ ops_result' = out.ret
                  /\ calls' = calls \o out.trace
                  /\ IF out.ret.status = "escalation_required"
                     THEN /\ orch_results' = [steps |-> steps]
                          /\ pc' = "awaiting_policy_agent"
                     ELSE /\ orch_results' = [steps |-> steps,
                                              final_status |-> out.ret.status]
                          /\ pc' = "done"
    /\ UNCHANGED <<crew_roster, flight_schedule, repositioning_flights, duty_rules,
                   hotel_inventory, crew_result, legality,
                   affected_crew_list,
                   active_connections,
                   active_requests>>

OrchestratorOpsAgent ==
    /\ pc = "ops_agent"
    /\ LET crew_id == crew_result.spare_used
           origin == SelectSeq(flight_schedule,
                               LAMBDA f : f.flight_id = flight_schedule[1].flight_id)[1].origin
       IN  \E out \in handle_ops_support(crew_id, origin, hotel_inventory) :
              LET steps == orch_results.steps \o <<[ops_support |-> out.ret]>>
                           \o (IF "policy" \in DOMAIN out.ret
                               THEN <<[ops_policy |-> out.ret.policy]>> ELSE <<>>)
              IN  /\ ops_result' = out.ret
                  /\ calls' = calls \o out.trace
                  /\ IF out.ret.status = "escalation_required"
                     THEN /\ orch_results' = [steps |-> steps]
                          /\ pc' = "awaiting_policy_agent"
                     ELSE /\ orch_results' = [steps |-> steps,
                                              final_status |-> crew_result.status]
                          /\ pc' = "done"
    /\ UNCHANGED <<crew_roster, flight_schedule, repositioning_flights, duty_rules,
                   hotel_inventory, crew_result, legality,
                   affected_crew_list,
                   active_connections,
                   active_requests>>

\* lines 31-37 and 49-55: the results once the policy agent has answered
\* policy_agent_returns with the llm_policy entry put in front of the steps
policy_agent_returns_entry_first(llm_result) ==
    [steps |-> <<[llm_policy |-> llm_result]>> \o orch_results.steps,
     final_status |-> llm_result.llm_decision]

policy_agent_returns(llm_result) ==
    [steps |-> Append(orch_results.steps, [llm_policy |-> llm_result]),
     final_status |-> llm_result.llm_decision]

PolicyAgentReturns ==
    /\ pc = "awaiting_policy_agent"
    /\ \E llm_result \in LlmResults :
          /\ orch_results' = policy_agent_returns(llm_result)
          /\ calls' = Append(calls, [fn |-> "llm_policy_reason", ret |-> llm_result])
    /\ pc' = "done"
    /\ UNCHANGED <<crew_roster, flight_schedule, repositioning_flights, duty_rules,
                   hotel_inventory, crew_result, ops_result, legality,
                   affected_crew_list,
                   active_connections,
                   active_requests>>

NextOrchestrator ==
    \/ OrchestratorCrewAgent
    \/ OrchestratorCrewAgentStream
    \/ StreamAdvisorReturns
    \/ OrchestratorOpsAgent
    \/ PolicyAgentReturns

SpecOrchestrator == InitOrchestrator /\ [][NextOrchestrator]_vars

\* Once the crew agent has returned, the orchestrator runs on to the ops
\* agent on its own (plain sequential code). The advisor is an external
\* service, and nothing in the code bounds the wait for its answer (no
\* timeout on the client call, no asyncio.wait_for), so its two return steps
\* carry no fairness.
FairOrchestrator == SpecOrchestrator /\ WF_vars(OrchestratorOpsAgent)

----------------------------------------------------------------------------
(* Two recovery passes, for two disrupted flights, over one roster: each
   crew assignment step is a call of handle_crew_assignment, and the two
   calls come in either order. Here pc and crew_result hold one entry per
   flight. *)

InitConcurrent ==
    /\ crew_roster \in {[i \in 1..(MaxRoster + 1) |->
                             [crew_id |-> CrewIds[i],
                              assigned_flight_id |-> p[i].assigned_flight_id,
                              duty_end |-> p[i].duty_end,
                              status |-> p[i].status,
                              base |-> p[i].base]] :
                            p \in [1..(MaxRoster + 1) -> CrewProfiles]}
    /\ \E w \in FlightWindows :
          flight_schedule =
              <<[flight_id |-> FlightId, origin |-> Origin, destination |-> "SFO",
                 scheduled_dep |-> w[1], scheduled_arr |-> w[2]],
                [flight_id |-> OtherFlightId, origin |-> Origin, destination |-> "SFO",
                 scheduled_dep |-> w[1], scheduled_arr |-> w[2]]>>
    /\ repositioning_flights = <<>>
    /\ duty_rules \in DutyRuleChoices
    /\ hotel_inventory = <<>>
    /\ pc = [f \in {FlightId, OtherFlightId} |-> "start"]
    /\ crew_result = [f \in {FlightId, OtherFlightId} |-> NoResult]
    /\ ops_result = NoResult
    /\ calls = <<>>
    /\ legality = NoCall
    /\ orch_results = NoResult
    /\ active_requests = <<>>
    /\ active_connections = <<>>
    /\ affected_crew_list = <<>>

\* the crew assignment step of the pass for flight_id; the roster is read,
\* never written (find_spares returns a copy of a row)
ConcurrentCrewAssignment(flight_id) ==
    /\ pc[flight_id] = "start"
    /\ \E out \in handle_crew_assignment(flight_id, crew_roster, flight_schedule,
                                         repositioning_flights, duty_rules) :
          /\ calls' = calls \o <<[fn |-> "handle_crew_assignment",
                                  flight_id |-> flight_id]>> \o out.trace
          /\ crew_result' = [crew_result EXCEPT ![flight_id] = out.ret]
    /\ pc' = [pc EXCEPT ![flight_id] = "crew_done"]
    /\ UNCHANGED <<crew_roster, flight_schedule, repositioning_flights, duty_rules,
                   hotel_inventory, ops_result, legality, orch_results,
                   affected_crew_list,
                   active_connections,
                   active_requests>>

SpecConcurrent ==
    InitConcurrent
    /\ [][\E flight_id \in {FlightId, OtherFlightId} :
             ConcurrentCrewAssignment(flight_id)]_vars

----------------------------------------------------------------------------
(* A sequence of bookings: handle_ops_support called again and again on one
   hotel inventory; calls holds every call made *)

MaxBookings == 2

\* BookingCall taking a room off the hotel it booked
BookingCall_decrementing ==
    /\ Cardinality({i \in DOMAIN calls : calls[i].fn = "book_hotel"}) < MaxBookings
    /\ \E location \in Airports :
          \E out \in handle_ops_support(CrewIds[1], location, hotel_inventory) :
             /\ ops_result' = out.ret
             /\ calls' = calls \o out.trace
             /\ hotel_inventory' =
                    [h \in DOMAIN hotel_inventory |->
                        IF /\ out.ret.status = "booked"
                           /\ hotel_inventory[h].hotel_id = out.ret.hotel_info.hotel_id
                        THEN [hotel_inventory[h] EXCEPT
                                  !.available_rooms = hotel_inventory[h].available_rooms - 1]
                        ELSE hotel_inventory[h]]
    /\ UNCHANGED <<crew_roster, flight_schedule, repositioning_flights, duty_rules,
                   pc, crew_result, legality, orch_results,
                   affected_crew_list,
                   active_connections,
                   active_requests>>

\* ops_support.py 6-40 with hotel_booker.py 25-42: the frame is filtered and
\* sorted into new frames; nothing is written to hotel_inventory_df
BookingCall ==
    /\ Cardinality({i \in DOMAIN calls : calls[i].fn = "book_hotel"}) < MaxBookings
    /\ \E location \in Airports :
          \E out \in handle_ops_support(CrewIds[1], location, hotel_inventory) :
             /\ ops_result' = out.ret
             /\ calls' = calls \o out.trace
    /\ UNCHANGED <<crew_roster, flight_schedule, repositioning_flights, duty_rules,
                   hotel_inventory, pc, crew_result, legality, orch_results,
                   affected_crew_list,
                   active_connections,
                   active_requests>>

SpecBookings == InitOps /\ [][BookingCall]_vars

----------------------------------------------------------------------------
(* The simplified reposition_flight_finder of iocca_mvp called directly, over
   the pools of the full algorithm *)

RepositionOptionsCall ==
    /\ pc = "idle"
    /\ pc' = "returned"
    /\ \E from_location \in {"DEN", "ORD"}, to_location \in {"DEN", "ORD"} :
          calls' = <<[fn |-> "reposition_flight_finder",
                      from_location |-> from_location,
                      to_location |-> to_location,
                      ret |-> reposition_flight_finder(from_location, to_location,
                                                       repositioning_flights)]>>
    /\ UNCHANGED <<crew_roster, flight_schedule, repositioning_flights, duty_rules,
                   hotel_inventory, crew_result, ops_result, legality, orch_results,
                   affected_crew_list,
                   active_connections,
                   active_requests>>

SpecOptions == InitReposition /\ [][RepositionOptionsCall]_vars

----------------------------------------------------------------------------
(* Duty rules as the caller gives them: the crew assignment step reached
   through main.py (a plain dict) and through the /api/crew-assignment
   endpoint of web/app.py (a CrewAssignmentRequest) *)

\* models/schemas.py 90-95: both limits are declared gt=0; building the
\* model from a non-positive limit raises ValidationError
DutyRules(max_duty_hours, min_rest_hours) ==
    IF max_duty_hours > 0 /\ min_rest_hours > 0
    THEN [max_duty_hours |-> max_duty_hours, min_rest_hours |-> min_rest_hours]
    ELSE Raised("ValidationError")

InitRules ==
    /\ crew_roster \in {r \in Rosters : Len(r) <= 1}
    /\ flight_schedule \in FlightSchedules
    /\ repositioning_flights \in Pools
    /\ duty_rules \in [max_duty_hours : {0, 8}, min_rest_hours : {0, 10}]
    /\ hotel_inventory = <<>>
    /\ pc = "start"
    /\ crew_result = NoResult
    /\ ops_result = NoResult
    /\ calls = <<>>
    /\ legality = NoCall
    /\ orch_results = NoResult
    /\ active_requests = <<>>
    /\ active_connections = <<>>
    /\ affected_crew_list = <<>>

\* web/app.py 476-507: the request body is validated into a
\* CrewAssignmentRequest, whose duty_rules field is a DutyRules, before the
\* endpoint calls the agent with request.duty_rules.dict()
CrewAssignmentEndpoint ==
    /\ pc = "start"
    /\ LET rules == DutyRules(duty_rules.max_duty_hours, duty_rules.min_rest_hours)
       IN  IF IsRaised(rules)
           THEN /\ calls' = <<[fn |-> "DutyRules", raised |-> rules.raised]>>
                /\ pc' = "rejected"
                /\ crew_result' = crew_result
           ELSE \E out \in handle_crew_assignment(FlightId, crew_roster, flight_schedule,
                                                  repositioning_flights, rules) :
                   /\ calls' = <<[fn |-> "DutyRules", ret |-> rules]>> \o out.trace
                   /\ crew_result' = out.ret
                   /\ pc' = "crew_done"
    /\ UNCHANGED <<crew_roster, flight_schedule, repositioning_flights, duty_rules,
                   hotel_inventory, ops_result, legality, orch_results,
                   affected_crew_list,
                   active_connections,
                   active_requests>>

SpecRules == InitRules /\ [][CrewAssignment \/ CrewAssignmentEndpoint]_vars

----------------------------------------------------------------------------
(* src/tools.py: StatusQueryTools.query_spare_pool, called directly *)

\* a duty_end cell that holds no timestamp (None in mock_data.py for the
\* unassigned crew)
NoDutyEnd == <<>>

\* the crew_roster_df the tools object holds
ToolRosters(roles, aircraft, flights, statuses, duty_ends) ==
    UNION {{[i \in 1..n |-> [crew_id |-> CrewIds[i],
                            name |-> CrewIds[i],
                            role |-> p[i].role,
                            base |-> Origin,
                            qualified_aircraft |-> p[i].qualified_aircraft,
                            assigned_flight_id |-> p[i].assigned_flight_id,
                            duty_end |-> p[i].duty_end,
                            rest_until |-> TimeText(0),
                            status |-> p[i].status]] :
               p \in [1..n -> [role : roles, qualified_aircraft : aircraft,
                               assigned_flight_id : flights, status : statuses,
                               duty_end : duty_ends]]} : n \in 0..MaxRoster}

\* query_spare_pool without the exclude_crew_ids test
StatusQueryTools_query_spare_pool_no_exclude(action_input, crew_roster_df) ==
    IF action_input = InvalidJson THEN [error |-> "Invalid input format"]
    ELSE
    LET params == action_input
        required_role == DictGet(params, "required_role", "")
        qualified_aircraft == DictGet(params, "qualified_aircraft", "")
    IN  IF required_role = "" \/ qualified_aircraft = ""
        THEN [error |-> "Missing required_role or qualified_aircraft"]
        ELSE
        LET spare_crew == SelectSeq(crew_roster_df, LAMBDA c :
                              /\ c.role = required_role
                              /\ c.qualified_aircraft = qualified_aircraft
                              /\ c.status = "active"
                              /\ c.assigned_flight_id = NoFlight)
        IN  IF spare_crew = <<>> THEN [message |-> "No matching spare crew"]
            ELSE [records |-> [i \in DOMAIN spare_crew |->
                     [crew_id |-> spare_crew[i].crew_id,
                      name |-> spare_crew[i].name,
                      base |-> spare_crew[i].base,
                      rest_until |-> spare_crew[i].rest_until]]]

\* lines 203-238; a key that is missing and a key with an empty value are
\* both falsy at line 222; the answer is a JSON object with "error" or
\* "message", or the JSON array of the records, here under "records"
StatusQueryTools_query_spare_pool(action_input, crew_roster_df) ==
    IF action_input = InvalidJson THEN [error |-> "Invalid input format"]
    ELSE
    LET params == action_input
        required_role == DictGet(params, "required_role", "")
        qualified_aircraft == DictGet(params, "qualified_aircraft", "")
        exclude_crew_ids == DictGet(params, "exclude_crew_ids", <<>>)
    IN  IF required_role = "" \/ qualified_aircraft = ""
        THEN [error |-> "Missing required_role or qualified_aircraft"]
        ELSE
        LET spare_crew == SelectSeq(crew_roster_df, LAMBDA c :
                              /\ c.role = required_role
                              /\ c.qualified_aircraft = qualified_aircraft
                              /\ ~(\E k \in DOMAIN exclude_crew_ids :
                                      exclude_crew_ids[k] = c.crew_id)
                              /\ c.status = "active"
                              /\ c.assigned_flight_id = NoFlight)
        IN  IF spare_crew = <<>> THEN [message |-> "No matching spare crew"]
            ELSE [records |-> [i \in DOMAIN spare_crew |->
                     [crew_id |-> spare_crew[i].crew_id,
                      name |-> spare_crew[i].name,
                      base |-> spare_crew[i].base,
                      rest_until |-> spare_crew[i].rest_until]]]

SparePoolRequests ==
    {InvalidJson}
    \cup [required_role : {"captain", "FO", ""},
          qualified_aircraft : {"B737", ""},
          exclude_crew_ids : {<<>>, <<CrewIds[1]>>, <<CrewIds[2]>>,
                              <<CrewIds[1], CrewIds[2]>>}]
    \cup [required_role : {"FO"}, qualified_aircraft : {"B737"}]
    \cup [qualified_aircraft : {"B737"}, exclude_crew_ids : {<<>>}]

InitSparePool ==
    /\ crew_roster \in ToolRosters({"captain", "FO"}, {"B737", "A320"},
                                   {NoFlight, FlightId}, {"active", "inactive"},
                                   {NoDutyEnd})
    /\ duty_rules \in DutyRuleChoices
    /\ flight_schedule = <<>>
    /\ repositioning_flights = <<>>
    /\ hotel_inventory = <<>>
    /\ pc = "idle"
    /\ crew_result = NoResult
    /\ ops_result = NoResult
    /\ calls = <<>>
    /\ legality = NoCall
    /\ orch_results = NoResult
    /\ active_requests = <<>>
    /\ active_connections = <<>>
    /\ affected_crew_list = <<>>

QuerySparePoolCall ==
    /\ pc = "idle"
    /\ pc' = "returned"
    /\ \E action_input \in SparePoolRequests :
          calls' = <<[fn |-> "StatusQueryTools.query_spare_pool",
                      action_input |-> action_input,
                      ret |-> StatusQueryTools_query_spare_pool(action_input,
                                                                crew_roster)]>>
    /\ UNCHANGED <<crew_roster, flight_schedule, repositioning_flights, duty_rules,
                   hotel_inventory, crew_result, ops_result, legality, orch_results,
                   affected_crew_list,
                   active_connections,
                   active_requests>>

SpecSparePool == InitSparePool /\ [][QuerySparePoolCall]_vars

----------------------------------------------------------------------------
(* src/tools.py: StatusQueryTools.duty_hour_checker, called directly *)

\* line 193 with <= in place of <
duty_status_inclusive(duty_end, projected_arrival) ==
    IF duty_end <= projected_arrival THEN "not legal" ELSE "legal"

\* line 193
duty_status(duty_end, projected_arrival) ==
    IF duty_end < projected_arrival THEN "not legal" ELSE "legal"

\* lines 175-199: the loop over crew_ids; result maps each crew id evaluated
\* so far to its report, and a crew id that is not found or whose duty_end
\* strptime cannot read ends the call with the error alone
RECURSIVE duty_hour_loop(_, _, _, _)
duty_hour_loop(crew_ids, projected_arrival, crew_roster_df, result) ==
    IF crew_ids = <<>> THEN result
    ELSE
    LET crew_id == Head(crew_ids)
        duty_end_series == SelectSeq(crew_roster_df, LAMBDA c : c.crew_id = crew_id)
    IN  IF crew_id = ""
        THEN duty_hour_loop(Tail(crew_ids), projected_arrival, crew_roster_df, result)
        ELSE IF duty_end_series = <<>>
        THEN [error |-> "crew id not found", crew_id |-> crew_id]
        ELSE IF ~IsTimeText(duty_end_series[1].duty_end)
        THEN [error |-> "Error processing crew id", crew_id |-> crew_id]
        ELSE
        LET duty_end == ParseTimeText(duty_end_series[1].duty_end)
            report == [duty_end |-> TimeText(duty_end),
                       projected_arrival |-> TimeText(projected_arrival),
                       status |-> duty_status(duty_end, projected_arrival)]
        IN  duty_hour_loop(Tail(crew_ids), projected_arrival, crew_roster_df,
                           [c \in DOMAIN result \cup {crew_id} |->
                               IF c = crew_id THEN report ELSE result[c]])

\* lines 152-201; the answer is the dict that is dumped as JSON, keyed by
\* crew id, or the exception that leaves the call (strptime on sched_arr is
\* outside every try)
StatusQueryTools_duty_hour_checker(action_input, crew_roster_df) ==
    IF action_input = InvalidJson THEN [error |-> "Invalid input format"]
    ELSE
    LET params == action_input
        crew_ids == params.crew_ids
        delay_minutes == params.delay_minutes
    IN  IF ~IsTimeText(params.sched_arr) THEN Raised("ValueError")
        ELSE
        LET sched_arr == ParseTimeText(params.sched_arr)
            projected_arrival == sched_arr + delay_minutes
        IN  duty_hour_loop(crew_ids, projected_arrival, crew_roster_df,
                           [c \in {} |-> None])

UnreadableText == <<CharColon>>

\* 2024-08-10 11:00, 2024-08-10 14:30, 2024-08-10 15:00
DutyHourTimes == {13620, 13830, 13860}

DutyHourRequests ==
    {InvalidJson}
    \cup [crew_ids : {<<>>, <<CrewIds[1]>>, <<CrewIds[1], CrewIds[2]>>,
                      <<CrewIds[2], CrewIds[1]>>, <<"", CrewIds[1]>>,
                      <<CrewIds[1], CrewIds[4]>>},
          sched_arr : {TimeText(t) : t \in DutyHourTimes} \cup {UnreadableText},
          delay_minutes : {-60, 0, 210}]

InitDutyHours ==
    /\ crew_roster \in ToolRosters({"FO"}, {"B737"}, {FlightId}, {"active"},
                                   {TimeText(t) : t \in DutyHourTimes}
                                       \cup {NoDutyEnd, UnreadableText})
    /\ duty_rules \in DutyRuleChoices
    /\ flight_schedule = <<>>
    /\ repositioning_flights = <<>>
    /\ hotel_inventory = <<>>
    /\ pc = "idle"
    /\ crew_result = NoResult
    /\ ops_result = NoResult
    /\ calls = <<>>
    /\ legality = NoCall
    /\ orch_results = NoResult
    /\ active_requests = <<>>
    /\ active_connections = <<>>
    /\ affected_crew_list = <<>>

DutyHourCheckerCall ==
    /\ pc = "idle"
    /\ pc' = "returned"
    /\ \E action_input \in DutyHourRequests :
          calls' = <<[fn |-> "StatusQueryTools.duty_hour_checker",
                      action_input |-> action_input,
                      ret |-> StatusQueryTools_duty_hour_checker(action_input,
                                                                 crew_roster)]>>
    /\ UNCHANGED <<crew_roster, flight_schedule, repositioning_flights, duty_rules,
                   hotel_inventory, crew_result, ops_result, legality, orch_results,
                   affected_crew_list,
                   active_connections,
                   active_requests>>

SpecDutyHours == InitDutyHours /\ [][DutyHourCheckerCall]_vars

----------------------------------------------------------------------------
(* One recovery pass over rosters whose unassigned crew have a duty history
   of their own *)

InitSpareDuty ==
    /\ crew_roster \in
          UNION {{[i \in 1..n |-> [crew_id |-> CrewIds[i],
                                  assigned_flight_id |-> p[i].assigned_flight_id,
                                  duty_end |-> p[i].duty_end,
                                  status |-> "active",
                                  base |-> Origin]] :
                     p \in [1..n -> [assigned_flight_id : {FlightId, NoFlight},
                                     duty_end : DutyEndChoices]]} :
                 n \in 0..MaxRoster}
    /\ flight_schedule \in FlightSchedules
    /\ repositioning_flights = <<>>
    /\ duty_rules \in DutyRuleChoices
    /\ hotel_inventory = <<>>
    /\ pc = "start"
    /\ crew_result = NoResult
    /\ ops_result = NoResult
    /\ calls = <<>>
    /\ legality = NoCall
    /\ orch_results = NoResult
    /\ active_requests = <<>>
    /\ active_connections = <<>>
    /\ affected_crew_list = <<>>

SpecSpareDuty == InitSpareDuty /\ [][Next]_vars

----------------------------------------------------------------------------
(* src/tools.py: StatusQueryTools.add_affected_crew and get_affected_crew on
   one tools object *)

MaxToolCalls == 4

\* add_affected_crew skipping an entry the list already holds
StatusQueryTools_add_affected_crew_no_duplicates(action_input, list) ==
    IF action_input = InvalidJson
    THEN [ret |-> [error |-> "Invalid input format"], list |-> list]
    ELSE
    LET params == action_input
        crew_id == DictGet(params, "crew_id", "")
        role == DictGet(params, "role", "")
        base == DictGet(params, "base", "")
        entry == [crew_id |-> crew_id, role |-> role, base |-> base]
    IN  IF crew_id = "" \/ role = "" \/ base = ""
        THEN [ret |-> [error |-> "Missing required fields"], list |-> list]
        ELSE [ret |-> [message |-> <<"Crew member", crew_id, "added to affected list">>],
              list |-> IF \E i \in DOMAIN list : list[i] = entry
                       THEN list ELSE Append(list, entry)]

\* lines 80-106: the answer and the list the tools object holds afterwards; a
\* key that is missing and a key with an empty value are both falsy at line 97
StatusQueryTools_add_affected_crew(action_input, list) ==
    IF action_input = InvalidJson
    THEN [ret |-> [error |-> "Invalid input format"], list |-> list]
    ELSE
    LET params == action_input
        crew_id == DictGet(params, "crew_id", "")
        role == DictGet(params, "role", "")
        base == DictGet(params, "base", "")
    IN  IF crew_id = "" \/ role = "" \/ base = ""
        THEN [ret |-> [error |-> "Missing required fields"], list |-> list]
        ELSE [ret |-> [message |-> <<"Crew member", crew_id, "added to affected list">>],
              list |-> Append(list, [crew_id |-> crew_id, role |-> role,
                                     base |-> base])]

\* lines 108-114
StatusQueryTools_get_affected_crew(action_input, list) ==
    [ret |-> [affected_crew |-> list], list |-> list]

AffectedCrewRequests ==
    {InvalidJson}
    \cup [crew_id : {CrewIds[1], CrewIds[2], ""}, role : {"captain", ""},
          base : {Origin}]
    \cup [crew_id : {CrewIds[1]}, role : {"captain"}]
    \cup [role : {"captain"}, base : {Origin}]

AddAffectedCrewCall ==
    /\ pc = "idle"
    /\ Len(calls) < MaxToolCalls
    /\ \E action_input \in AffectedCrewRequests :
          LET out == StatusQueryTools_add_affected_crew(action_input,
                                                        affected_crew_list)
          IN  /\ affected_crew_list' = out.list
              /\ calls' = Append(calls, [fn |-> "StatusQueryTools.add_affected_crew",
                                         action_input |-> action_input,
                                         ret |-> out.ret])
    /\ UNCHANGED <<crew_roster, flight_schedule, repositioning_flights, duty_rules,
                   hotel_inventory, pc, crew_result, ops_result, legality,
                   orch_results,
                   active_connections,
                   active_requests>>

GetAffectedCrewCall ==
    /\ pc = "idle"
    /\ Len(calls) < MaxToolCalls
    /\ LET out == StatusQueryTools_get_affected_crew([x \in {} |-> ""],
                                                     affected_crew_list)
       IN  /\ affected_crew_list' = out.list
           /\ calls' = Append(calls, [fn |-> "StatusQueryTools.get_affected_crew",
                                      ret |-> out.ret])
    /\ UNCHANGED <<crew_roster, flight_schedule, repositioning_flights, duty_rules,
                   hotel_inventory, pc, crew_result, ops_result, legality,
                   orch_results,
                   active_connections,
                   active_requests>>

SpecAffectedCrew == InitIdle /\ [][AddAffectedCrewCall \/ GetAffectedCrewCall]_vars

----------------------------------------------------------------------------
(* iocca_mvp/web/app.py: ConnectionManager and websocket_endpoint. The tasks
   run on one event loop, so a task runs from one await to the next without
   interruption. Here pc holds one entry per task: the broadcasts and the
   endpoint of each websocket. *)

MaxConnections == 2

WebSocketIds == <<"ws1", "ws2", "ws3">>
WebSockets == {WebSocketIds[i] : i \in 1..MaxConnections}
Broadcasts == {"broadcast_1", "broadcast_2"}

\* list.remove: the first occurrence is taken out
list_remove(list, x) ==
    LET at == CHOOSE i \in DOMAIN list :
                  list[i] = x /\ \A j \in 1..(i - 1) : list[j] # x
    IN  SubSeq(list, 1, at - 1) \o SubSeq(list, at + 1, Len(list))

Contains(list, x) == \E i \in DOMAIN list : list[i] = x

InitConnections ==
    /\ crew_roster = <<>>
    /\ duty_rules \in DutyRuleChoices
    /\ flight_schedule = <<>>
    /\ repositioning_flights = <<>>
    /\ hotel_inventory = <<>>
    /\ pc = [t \in Broadcasts \cup WebSockets |->
                IF t \in Broadcasts
                THEN [at |-> "idle", index |-> 0, connection |-> "",
                      started_with |-> {}, attempted |-> {}, sent |-> {},
                      failed |-> {}, removed |-> {}]
                ELSE [at |-> "new"]]
    /\ crew_result = NoResult
    /\ ops_result = NoResult
    /\ calls = <<>>
    /\ legality = NoCall
    /\ orch_results = NoResult
    /\ active_requests = <<>>
    /\ affected_crew_list = <<>>
    /\ active_connections = <<>>

\* line 573, the for statement: the list iterator holds an index into the
\* list as it now is, and the loop ends when the index has reached its length
broadcast_next(task, connections) ==
    IF task.index < Len(connections)
    THEN [task EXCEPT !.at = "sending",
                      !.connection = connections[task.index + 1],
                      !.index = task.index + 1,
                      !.attempted = task.attempted \cup {connections[task.index + 1]}]
    ELSE [task EXCEPT !.at = "done"]

\* lines 562-564 and 584
Connect(websocket) ==
    /\ pc[websocket].at = "new"
    /\ active_connections' = Append(active_connections, websocket)
    /\ pc' = [pc EXCEPT ![websocket].at = "open"]
    /\ UNCHANGED <<crew_roster, flight_schedule, repositioning_flights, duty_rules,
                   hotel_inventory, crew_result, ops_result, calls, legality,
                   orch_results, affected_crew_list,
                   active_requests>>

\* lines 566-567 and 590-591: receive_text raised WebSocketDisconnect;
\* list.remove raises ValueError for a websocket the list no longer holds
Disconnect(websocket) ==
    /\ pc[websocket].at = "open"
    /\ IF Contains(active_connections, websocket)
       THEN /\ active_connections' = list_remove(active_connections, websocket)
            /\ pc' = [pc EXCEPT ![websocket].at = "closed"]
       ELSE /\ active_connections' = active_connections
            /\ pc' = [pc EXCEPT ![websocket].at = "raised"]
    /\ UNCHANGED <<crew_roster, flight_schedule, repositioning_flights, duty_rules,
                   hotel_inventory, crew_result, ops_result, calls, legality,
                   orch_results, affected_crew_list,
                   active_requests>>

\* lines 572-575: the broadcast starts and comes to its first send
BroadcastStart(b) ==
    /\ pc[b].at = "idle"
    /\ pc' = [pc EXCEPT ![b] =
                 broadcast_next([pc[b] EXCEPT !.started_with =
                                     {active_connections[i] :
                                         i \in DOMAIN active_connections}],
                                active_connections)]
    /\ UNCHANGED <<crew_roster, flight_schedule, repositioning_flights, duty_rules,
                   hotel_inventory, crew_result, ops_result, calls, legality,
                   orch_results, affected_crew_list, active_connections,
                   active_requests>>

\* line 575: the send to a websocket that is still open returns, and the
\* loop comes to its next send
SendReturns(b) ==
    /\ pc[b].at = "sending"
    /\ pc[pc[b].connection].at = "open"
    /\ pc' = [pc EXCEPT ![b] =
                 broadcast_next([pc[b] EXCEPT !.sent = pc[b].sent \cup {pc[b].connection}],
                                active_connections)]
    /\ UNCHANGED <<crew_roster, flight_schedule, repositioning_flights, duty_rules,
                   hotel_inventory, crew_result, ops_result, calls, legality,
                   orch_results, affected_crew_list, active_connections,
                   active_requests>>

\* lines 576-578: the send raises; the handler removes the connection, and
\* list.remove raises ValueError out of broadcast when the list no longer
\* holds it
SendRaises(b) ==
    /\ pc[b].at = "sending"
    /\ LET connection == pc[b].connection
           failed == pc[b].failed \cup {connection}
       IN  IF Contains(active_connections, connection)
           THEN /\ active_connections' = list_remove(active_connections, connection)
                /\ pc' = [pc EXCEPT ![b] =
                             broadcast_next([pc[b] EXCEPT
                                                !.failed = failed,
                                                !.removed = pc[b].removed
                                                                \cup {connection}],
                                            active_connections')]
           ELSE /\ active_connections' = active_connections
                /\ pc' = [pc EXCEPT ![b] = [pc[b] EXCEPT !.failed = failed,
                                                          !.at = "raised"]]
    /\ UNCHANGED <<crew_roster, flight_schedule, repositioning_flights, duty_rules,
                   hotel_inventory, crew_result, ops_result, calls, legality,
                   orch_results, affected_crew_list,
                   active_requests>>

NextConnections ==
    \/ \E websocket \in WebSockets : Connect(websocket)
    \/ \E websocket \in WebSockets : Disconnect(websocket)
    \/ \E b \in Broadcasts : BroadcastStart(b)
    \/ \E b \in Broadcasts : SendReturns(b)
    \/ \E b \in Broadcasts : SendRaises(b)

SpecConnections == InitConnections /\ [][NextConnections]_vars

----------------------------------------------------------------------------
(* iocca_mvp/web/app.py: the disruption records of simulate_disruption and
   simulate_disruption_stream and the background tasks that process them.
   Here pc holds one entry per disruption id: the position of its task.
   disruption_history holds the same dict objects as active_requests, and
   nothing deletes from either. *)

MaxDisruptions == 2

DisruptionIds == {"disruption_1", "disruption_2", "disruption_3"}

\* dict.update
dict_update(d, u) ==
    [k \in DOMAIN d \cup DOMAIN u |-> IF k \in DOMAIN u THEN u[k] ELSE d[k]]

\* what the recovery pass hands back to the task: the results of
\* Orchestrator.handle_disruption, or an exception it let through
OrchestratorOutcomes ==
    {[steps |-> <<>>, final_status |-> s] :
        s \in {"legal", "reassigned", "Escalate to duty manager for manual review."}}
    \cup {Raised("ValueError"), Raised("KeyError")}

\* what the streaming crew agent hands back: its result, or an exception
StreamOutcomes ==
    {[status |-> s] : s \in {"legal", "reassigned", "escalation_required"}}
    \cup {Raised("ValueError"), Raised("TypeError")}

InitDisruptions ==
    /\ crew_roster = <<>>
    /\ duty_rules \in DutyRuleChoices
    /\ flight_schedule = <<>>
    /\ repositioning_flights = <<>>
    /\ hotel_inventory = <<>>
    /\ pc = [id \in DisruptionIds |-> "unused"]
    /\ crew_result = NoResult
    /\ ops_result = NoResult
    /\ calls = <<>>
    /\ legality = NoCall
    /\ orch_results = NoResult
    /\ affected_crew_list = <<>>
    /\ active_connections = <<>>
    /\ active_requests = <<>>

\* lines 282-315 (stream_enabled FALSE) and 245-280 (TRUE): the record is
\* created and the background task is scheduled
create_disruption(disruption_id, stream_enabled) ==
    [id \in DOMAIN active_requests \cup {disruption_id} |->
        IF id = disruption_id
        THEN [disruption_id |-> disruption_id, flight_id |-> FlightId,
              status |-> "processing", stream_enabled |-> stream_enabled]
        ELSE active_requests[id]]

simulate_disruption(disruption_id) ==
    /\ pc[disruption_id] = "unused"
    /\ Cardinality(DOMAIN active_requests) < MaxDisruptions
    /\ active_requests' = create_disruption(disruption_id, FALSE)
    /\ pc' = [pc EXCEPT ![disruption_id] = "process_disruption"]
    /\ UNCHANGED <<crew_roster, flight_schedule, repositioning_flights, duty_rules,
                   hotel_inventory, crew_result, ops_result, calls, legality,
                   orch_results, affected_crew_list, active_connections>>

simulate_disruption_stream(disruption_id) ==
    /\ pc[disruption_id] = "unused"
    /\ Cardinality(DOMAIN active_requests) < MaxDisruptions
    /\ active_requests' = create_disruption(disruption_id, TRUE)
    /\ pc' = [pc EXCEPT ![disruption_id] = "process_disruption_stream"]
    /\ UNCHANGED <<crew_roster, flight_schedule, repositioning_flights, duty_rules,
                   hotel_inventory, crew_result, ops_result, calls, legality,
                   orch_results, affected_crew_list, active_connections>>

\* the updates of lines 383-389 and 437-443, and of 408-412 and 453-457
completed_update(results) ==
    [status |-> "completed", results |-> results,
     final_status |-> results.final_status]

failed_update(e) == [status |-> "failed", error |-> e.raised]

\* process_disruption whose handler leaves the record alone
process_disruption_unhandled(disruption_id) ==
    /\ pc[disruption_id] = "process_disruption"
    /\ \E results \in OrchestratorOutcomes :
          active_requests' =
              [active_requests EXCEPT ![disruption_id] =
                  IF IsRaised(results) THEN @
                  ELSE dict_update(@, completed_update(results))]
    /\ pc' = [pc EXCEPT ![disruption_id] = "ended"]
    /\ UNCHANGED <<crew_roster, flight_schedule, repositioning_flights, duty_rules,
                   hotel_inventory, crew_result, ops_result, calls, legality,
                   orch_results, affected_crew_list, active_connections>>

\* lines 422-457: the task has no await, so it runs in one piece
process_disruption(disruption_id) ==
    /\ pc[disruption_id] = "process_disruption"
    /\ \E results \in OrchestratorOutcomes :
          active_requests' =
              [active_requests EXCEPT ![disruption_id] =
                  IF IsRaised(results) THEN dict_update(@, failed_update(results))
                  ELSE dict_update(@, completed_update(results))]
    /\ pc' = [pc EXCEPT ![disruption_id] = "ended"]
    /\ UNCHANGED <<crew_roster, flight_schedule, repositioning_flights, duty_rules,
                   hotel_inventory, crew_result, ops_result, calls, legality,
                   orch_results, affected_crew_list, active_connections>>

\* lines 319-398: the streaming crew agent (and, on escalation, the advisor)
\* has returned or raised; the record is updated and the task comes to the
\* broadcast of the completion message or of the error message
process_disruption_stream(disruption_id) ==
    /\ pc[disruption_id] = "process_disruption_stream"
    /\ \E crew_result_ \in StreamOutcomes :
          IF IsRaised(crew_result_)
          THEN /\ active_requests' =
                      [active_requests EXCEPT ![disruption_id] =
                          dict_update(@, failed_update(crew_result_))]
               /\ pc' = [pc EXCEPT ![disruption_id] = "broadcast_error"]
          ELSE LET results == [steps |-> <<[crew_assignment |-> crew_result_]>>,
                               final_status |-> crew_result_.status,
                               llm_reasoning_enabled |-> TRUE]
               IN  /\ active_requests' =
                          [active_requests EXCEPT ![disruption_id] =
                              dict_update(@, completed_update(results))]
                   /\ pc' = [pc EXCEPT ![disruption_id] = "broadcast_completion"]
    /\ UNCHANGED <<crew_roster, flight_schedule, repositioning_flights, duty_rules,
                   hotel_inventory, crew_result, ops_result, calls, legality,
                   orch_results, affected_crew_list, active_connections>>

\* lines 398-420: manager.broadcast(completion_message) returns, or raises
\* (ValueError out of list.remove) into the handler of line 404
BroadcastCompletion(disruption_id) ==
    /\ pc[disruption_id] = "broadcast_completion"
    /\ \/ /\ pc' = [pc EXCEPT ![disruption_id] = "ended"]
          /\ active_requests' = active_requests
       \/ /\ pc' = [pc EXCEPT ![disruption_id] = "broadcast_error"]
          /\ active_requests' =
                 [active_requests EXCEPT ![disruption_id] =
                     dict_update(@, failed_update(Raised("ValueError")))]
    /\ UNCHANGED <<crew_roster, flight_schedule, repositioning_flights, duty_rules,
                   hotel_inventory, crew_result, ops_result, calls, legality,
                   orch_results, affected_crew_list, active_connections>>

\* line 420: manager.broadcast(error_message) returns, or raises out of the
\* task
BroadcastError(disruption_id) ==
    /\ pc[disruption_id] = "broadcast_error"
    /\ pc' \in {[pc EXCEPT ![disruption_id] = "ended"],
                [pc EXCEPT ![disruption_id] = "ended_raised"]}
    /\ UNCHANGED <<crew_roster, flight_schedule, repositioning_flights, duty_rules,
                   hotel_inventory, crew_result, ops_result, calls, legality,
                   orch_results, affected_crew_list, active_connections,
                   active_requests>>

NextDisruptions ==
    \/ \E disruption_id \in DisruptionIds : simulate_disruption(disruption_id)
    \/ \E disruption_id \in DisruptionIds : simulate_disruption_stream(disruption_id)
    \/ \E disruption_id \in DisruptionIds : process_disruption(disruption_id)
    \/ \E disruption_id \in DisruptionIds : process_disruption_stream(disruption_id)
    \/ \E disruption_id \in DisruptionIds : BroadcastCompletion(disruption_id)
    \/ \E disruption_id \in DisruptionIds : BroadcastError(disruption_id)

SpecDisruptions == InitDisruptions /\ [][NextDisruptions]_vars

----------------------------------------------------------------------------
(* What the properties speak of *)

TheFlight == SelectSeq(flight_schedule, LAMBDA f : f.flight_id = FlightId)[1]

\* the crew the roster assigns to the disrupted flight, in roster order
Assigned == SelectSeq(crew_roster, LAMBDA c : c.assigned_flight_id = FlightId)

CrewReturned == pc \in {"crew_done", "done"}

ReportedLegal(c) ==
    \E i \in DOMAIN calls :
        calls[i].fn = "check_legality" /\ calls[i].crew_id = c.crew_id /\ calls[i].legal

ReportedIllegal(c) ==
    \E i \in DOMAIN calls :
        calls[i].fn = "check_legality" /\ calls[i].crew_id = c.crew_id /\ ~calls[i].legal

SomeReportedIllegal == \E i \in DOMAIN Assigned : ReportedIllegal(Assigned[i])

IsSpareEntry(c) == c.assigned_flight_id = NoFlight /\ c.status = "active"

SpareInRoster == \E i \in DOMAIN crew_roster : IsSpareEntry(crew_roster[i])

SpareAtOrigin ==
    \E i \in DOMAIN crew_roster :
        IsSpareEntry(crew_roster[i]) /\ crew_roster[i].base = TheFlight.origin

CallsTo(fn) == {i \in DOMAIN calls : calls[i].fn = fn}

StatusFields(r) ==
    /\ ("assigned_crew" \in DOMAIN r)
           <=> r.status \in {"legal", "reassigned", "repositioning_initiated"}
    /\ ("spare_used" \in DOMAIN r)
           <=> r.status \in {"reassigned", "repositioning_initiated"}
    /\ ("policy" \in DOMAIN r) <=> r.status = "escalation_required"
    /\ ("hotel_info" \in DOMAIN r) <=> r.status = "booked"

----------------------------------------------------------------------------
(* C1: every result of handle_crew_assignment has one of the four crew
   statuses and every result of handle_ops_support is booked or
   escalation_required; a call leaves exactly one result (none before the
   call, one ops result per ops call); and the status decides which of
   assigned_crew, spare_used, policy and hotel_info the result carries. *)
C1_StatusDeterminesFields ==
    /\ (crew_result = NoResult) <=> (pc = "start")
    /\ Cardinality(CallsTo("handle_ops_support"))
           = (IF ops_result = NoResult THEN 0 ELSE 1)
    /\ crew_result # NoResult =>
          /\ crew_result.status \in {"legal", "reassigned", "repositioning_initiated",
                                     "escalation_required"}
          /\ StatusFields(crew_result)
    /\ ops_result # NoResult =>
          /\ ops_result.status \in {"booked", "escalation_required"}
          /\ StatusFields(ops_result)

C1_Witness ==
    /\ pc = "done"
    /\ crew_result.status = "reassigned"
    /\ ops_result.status = "escalation_required"

(* C2: when check_legality reported legal for every crew member assigned to
   the flight, the crew agent returns legal with exactly the assigned crew,
   and the pass calls neither find_spares, reposition_flight_finder nor
   retrieve_policy. *)
C2_AllLegalReturnsLegal ==
    (CrewReturned /\ \A i \in DOMAIN Assigned : ReportedLegal(Assigned[i])) =>
        /\ crew_result.status = "legal"
        /\ crew_result.assigned_crew = Assigned
        /\ \A i \in DOMAIN calls :
               calls[i].fn \notin {"find_spares", "reposition_flight_finder",
                                   "retrieve_policy"}

C2_Witness ==
    /\ pc = "done"
    /\ Len(Assigned) = 2
    /\ \A i \in DOMAIN Assigned : ReportedLegal(Assigned[i])
    /\ crew_result.status = "legal"

(* C3: when some assigned crew member was reported illegal and the roster
   holds an unassigned active entry, the crew agent returns reassigned with
   assigned_crew = [spare] and spare_used = the crew_id of the spare that
   find_spares returned. *)
C3_SpareReassigned ==
    (CrewReturned /\ SomeReportedIllegal /\ SpareInRoster) =>
        /\ crew_result.status = "reassigned"
        /\ \E i \in CallsTo("find_spares") :
               /\ calls[i].ret # None
               /\ crew_result.assigned_crew = <<calls[i].ret>>
               /\ crew_result.spare_used = calls[i].ret.crew_id

C3_Witness ==
    /\ CrewReturned
    /\ SomeReportedIllegal
    /\ SpareInRoster
    /\ crew_result.status = "reassigned"
    /\ crew_result.spare_used = CrewIds[2]

(* C4: when some assigned crew member is illegal, no spare is available at
   the flight's origin (the only unassigned active crew are based
   elsewhere), and the pool holds a seat-available flight from such a
   spare's base into the origin arriving by the scheduled departure, the
   pass returns repositioning_initiated with spare_used set and a message
   naming the chosen pool flight. *)
C4_RepositioningInitiated ==
    (/\ CrewReturned
     /\ SomeReportedIllegal
     /\ ~SpareAtOrigin
     /\ \E i \in DOMAIN crew_roster, j \in DOMAIN repositioning_flights :
            /\ IsSpareEntry(crew_roster[i])
            /\ repositioning_flights[j].origin = crew_roster[i].base
            /\ repositioning_flights[j].destination = TheFlight.origin
            /\ repositioning_flights[j].seats_available
            /\ repositioning_flights[j].sched_arr <= TheFlight.scheduled_dep)
    => /\ crew_result.status = "repositioning_initiated"
       /\ "spare_used" \in DOMAIN crew_result
       /\ \E j \in DOMAIN repositioning_flights :
              crew_result.message[4] = repositioning_flights[j].flight_id

(* C5: when some assigned crew member is illegal and neither a spare nor a
   repositioning option exists, retrieve_policy is called exactly once, with
   "no legal crew and repositioning unavailable", and the pass returns
   escalation_required carrying exactly the record that call returned (a
   matched policy or the fallback record). *)
C5_EscalationCarriesPolicy ==
    (/\ CrewReturned
     /\ SomeReportedIllegal
     /\ ~SpareInRoster
     /\ ~\E j \in DOMAIN repositioning_flights :
             /\ repositioning_flights[j].destination = TheFlight.origin
             /\ repositioning_flights[j].seats_available)
    => /\ Cardinality(CallsTo("retrieve_policy")) = 1
       /\ \A i \in CallsTo("retrieve_policy") :
              /\ calls[i].query = "no legal crew and repositioning unavailable"
              /\ crew_result.status = "escalation_required"
              /\ crew_result.policy = calls[i].ret
              /\ \/ calls[i].ret.policy_id = "fallback"
                 \/ \E d \in DOMAIN policy_docs :
                        calls[i].ret.policy_id = policy_docs[d].id

C5_Witness ==
    /\ CrewReturned
    /\ SomeReportedIllegal
    /\ ~SpareInRoster
    /\ repositioning_flights = <<>>
    /\ crew_result.status = "escalation_required"
    /\ crew_result.policy.policy_id = "test_policy"

(* C6: a pass whose crew step ended reassigned or repositioning_initiated
   has called the hotel booker for a displaced crew member (an assigned crew
   member found illegal) at the flight's origin; a pass whose crew step
   ended legal or escalation_required has not called it. *)
C6_HotelForDisplacedCrew ==
    pc = "done" =>
        /\ crew_result.status \in {"reassigned", "repositioning_initiated"} =>
               \E i \in CallsTo("book_hotel") :
                   /\ calls[i].location = TheFlight.origin
                   /\ \E k \in DOMAIN Assigned :
                          /\ ReportedIllegal(Assigned[k])
                          /\ calls[i].crew_id = Assigned[k].crew_id
        /\ crew_result.status \in {"legal", "escalation_required"} =>
               CallsTo("book_hotel") = {}

(* C7: handle_ops_support returns booked, with the booking as hotel_info,
   whenever a hotel at the location has a room; otherwise it calls
   retrieve_policy with "hotel full at layover location" and returns
   escalation_required carrying the record that call returned. *)
C7_BookedOrEscalated ==
    ops_result # NoResult =>
        LET location == calls[1].location
            has_room == \E h \in DOMAIN hotel_inventory :
                            /\ hotel_inventory[h].location = location
                            /\ hotel_inventory[h].available_rooms > 0
        IN  IF has_room
            THEN /\ ops_result.status = "booked"
                 /\ calls[2].fn = "book_hotel"
                 /\ calls[2].ret.success
                 /\ ops_result.hotel_info = calls[2].ret
                 /\ CallsTo("retrieve_policy") = {}
            ELSE /\ Cardinality(CallsTo("retrieve_policy")) = 1
                 /\ \A i \in CallsTo("retrieve_policy") :
                        /\ calls[i].query = "hotel full at layover location"
                        /\ ops_result.status = "escalation_required"
                        /\ ops_result.policy = calls[i].ret

C7_Witness ==
    /\ ops_result # NoResult
    /\ ops_result.status = "booked"
    /\ Len(hotel_inventory) = 2
    /\ hotel_inventory[1].available_rooms = 0
    /\ ops_result.hotel_info.hotel_id = hotel_inventory[2].hotel_id

(* C8 as stated: when every crew member assigned to the flight has a
   recorded duty_end later than the scheduled arrival, the pass returns
   legal with all of them in assigned_crew. *)
C8_DutyEndAfterArrivalLegal ==
    (/\ CrewReturned
     /\ \A i \in DOMAIN Assigned :
            /\ Assigned[i].duty_end # NaT
            /\ Assigned[i].duty_end > TheFlight.scheduled_arr)
    => /\ crew_result.status = "legal"
       /\ crew_result.assigned_crew = Assigned

(* C8 amended: when the scheduled leg is at most max_duty_hours long and
   every crew member assigned to the flight has a recorded duty_end at least
   min_rest_hours before the scheduled departure, the pass returns legal
   with all of them in assigned_crew. *)
C8_RestedCrewLegal ==
    (/\ CrewReturned
     /\ TheFlight.scheduled_arr - TheFlight.scheduled_dep
            <= 60 * duty_rules.max_duty_hours
     /\ \A i \in DOMAIN Assigned :
            /\ Assigned[i].duty_end # NaT
            /\ TheFlight.scheduled_dep - Assigned[i].duty_end
                   >= 60 * duty_rules.min_rest_hours)
    => /\ crew_result.status = "legal"
       /\ crew_result.assigned_crew = Assigned

C8_Witness ==
    /\ CrewReturned
    /\ Len(Assigned) = 2
    /\ \A i \in DOMAIN Assigned :
           /\ Assigned[i].duty_end # NaT
           /\ TheFlight.scheduled_dep - Assigned[i].duty_end
                  >= 60 * duty_rules.min_rest_hours
    /\ crew_result.status = "legal"

----------------------------------------------------------------------------
(* check_legality called directly *)

CalledForRosterCrew ==
    /\ legality # NoCall
    /\ \E i \in DOMAIN crew_roster : crew_roster[i].crew_id = legality.crew_id

CalledCrew ==
    SelectSeq(crew_roster, LAMBDA c : c.crew_id = legality.crew_id)[1]

WindowMinutes == legality.planned_end - legality.planned_start

(* C9: for a crew member in the roster and a planned window longer than
   max_duty_hours, check_legality returns legal = false with
   remaining_duty_minutes = 0, whatever the prior duty_end. *)
C9_OverlongWindowIllegal ==
    (CalledForRosterCrew /\ WindowMinutes > 60 * duty_rules.max_duty_hours) =>
        /\ legality.ret.legal = FALSE
        /\ legality.ret.remaining_duty_minutes = 0

C9_Witness ==
    /\ CalledForRosterCrew
    /\ WindowMinutes > 60 * duty_rules.max_duty_hours
    /\ CalledCrew.duty_end = NaT
    /\ legality.ret.legal = FALSE

(* C10: for a planned window of at most max_duty_hours, and a crew member
   with no prior duty_end or with rest of at least min_rest_hours,
   check_legality returns legal = true with remaining_duty_minutes =
   floor((max_duty_hours - duration) * 60), which is never negative.  With
   the window a whole number of minutes the floor is
   60 * max_duty_hours - minutes; the windows taken here do not end before
   they start. *)
C10_RemainingIsFloor ==
    (/\ CalledForRosterCrew
     /\ WindowMinutes >= 0
     /\ WindowMinutes <= 60 * duty_rules.max_duty_hours
     /\ \/ CalledCrew.duty_end = NaT
        \/ legality.planned_start - CalledCrew.duty_end
               >= 60 * duty_rules.min_rest_hours)
    => /\ legality.ret.legal = TRUE
       /\ legality.ret.remaining_duty_minutes
              = 60 * duty_rules.max_duty_hours - WindowMinutes
       /\ legality.ret.remaining_duty_minutes >= 0

(* C11: for a planned window within max_duty_hours and a crew member with a
   recorded prior duty_end, check_legality returns legal = false with
   remaining_duty_minutes = 0 and the rest-violation reason exactly when
   planned_start - duty_end is less than min_rest_hours; otherwise, rest
   equal to min_rest_hours included, it returns legal = true. *)
C11_RestRule ==
    (/\ CalledForRosterCrew
     /\ WindowMinutes <= 60 * duty_rules.max_duty_hours
     /\ CalledCrew.duty_end # NaT)
    => IF legality.planned_start - CalledCrew.duty_end
              < 60 * duty_rules.min_rest_hours
       THEN /\ legality.ret.legal = FALSE
            /\ legality.ret.remaining_duty_minutes = 0
            /\ legality.ret.reason = "Rest period below minimum"
       ELSE legality.ret.legal = TRUE

C11_Witness ==
    /\ CalledForRosterCrew
    /\ WindowMinutes >= 0
    /\ CalledCrew.duty_end # NaT
    /\ legality.planned_start - CalledCrew.duty_end = 60 * duty_rules.min_rest_hours
    /\ legality.ret.legal = TRUE

(* C12: every result check_legality returns carries the three fields legal,
   reason and remaining_duty_minutes, and for a crew_id absent from the
   roster the result has legal = false. *)
C12_ContractShape ==
    legality # NoCall =>
        /\ DOMAIN legality.ret = {"legal", "reason", "remaining_duty_minutes"}
        /\ ~CalledForRosterCrew => legality.ret.legal = FALSE

(* C13: two calls of check_legality with the same crew_id, window, rules and
   roster return the same result, and no call changes the roster or the
   duty rules. *)
C13_Deterministic ==
    /\ [](\A i, j \in DOMAIN calls :
             (/\ calls[i].fn = "check_legality"
              /\ calls[j].fn = "check_legality"
              /\ calls[i].crew_id = calls[j].crew_id
              /\ calls[i].planned_start = calls[j].planned_start
              /\ calls[i].planned_end = calls[j].planned_end)
             => calls[i].ret = calls[j].ret)
    /\ [][crew_roster' = crew_roster /\ duty_rules' = duty_rules]_vars

C13_Witness ==
    /\ pc = "repeated"
    /\ Len(calls) = 2
    /\ calls[1].crew_id = CrewIds[1]
    /\ calls[2].ret.legal = TRUE
    /\ crew_roster[1].duty_end # NaT

(* C14: find_spares returns the first roster entry, in roster order, whose
   assigned flight is null and whose status is active, and returns None
   when the roster holds no such entry. *)
C14_FirstUnassignedActive ==
    \A k \in CallsTo("find_spares") :
        LET spare_rows == {i \in DOMAIN crew_roster : IsSpareEntry(crew_roster[i])}
        IN  IF spare_rows = {}
            THEN calls[k].ret = None
            ELSE \E i \in spare_rows :
                    /\ \A j \in spare_rows : i <= j
                    /\ calls[k].ret = crew_roster[i]

C14_Witness ==
    /\ pc = "returned"
    /\ Len(crew_roster) = 2
    /\ crew_roster[1].assigned_flight_id = NoFlight
    /\ crew_roster[1].status = "inactive"
    /\ IsSpareEntry(crew_roster[2])
    /\ calls[1].ret = crew_roster[2]

----------------------------------------------------------------------------
(* StatusQueryTools.reposition_flight_finder called with a JSON request *)

RepositionCalls ==
    {k \in CallsTo("StatusQueryTools.reposition_flight_finder") :
        calls[k].action_input # InvalidJson}

\* scheduled departure + delay - report buffer, in minutes
Deadline(req) == ParseTimeText(req.sched_dep) + req.delay_minutes - req.report_buffer

Qualifies(row, req) ==
    /\ row.origin = req.from_base
    /\ row.destination = req.to_airport
    /\ row.seats_available
    /\ ParseTimeText(row.sched_arr) <= Deadline(req)

(* C15: the flight the full-algorithm reposition_flight_finder returns is
   a pool flight on the requested route, with a seat available, arriving no
   later than the deadline; and when some pool flight qualifies, a flight is
   returned and none of the qualifying flights arrives before it. *)
C15_NeverLateAndEarliest ==
    \A k \in RepositionCalls :
        LET req == calls[k].action_input
            pool == calls[k].pool
            ret == calls[k].ret
        IN  /\ "earliest_available_flight" \in DOMAIN ret =>
                  /\ \E i \in DOMAIN pool :
                         drop_sched_arr_dt(pool[i]) = ret.earliest_available_flight
                  /\ Qualifies(ret.earliest_available_flight, req)
            /\ (\E i \in DOMAIN pool : Qualifies(pool[i], req)) =>
                  /\ "earliest_available_flight" \in DOMAIN ret
                  /\ \A i \in DOMAIN pool :
                         Qualifies(pool[i], req) =>
                             ParseTimeText(ret.earliest_available_flight.sched_arr)
                                 <= ParseTimeText(pool[i].sched_arr)

C15_Witness ==
    \E k \in RepositionCalls :
        /\ Len(calls[k].pool) = 2
        /\ Qualifies(calls[k].pool[1], calls[k].action_input)
        /\ Qualifies(calls[k].pool[2], calls[k].action_input)
        /\ calls[k].pool[1].sched_arr = TimeText(13500)
        /\ calls[k].pool[2].sched_arr = TimeText(12945)
        /\ calls[k].ret.earliest_available_flight.flight_id = PoolIds[2]

(* C16: every response of the full-algorithm reposition_flight_finder to a
   JSON request reports required_time = scheduled departure + delay_minutes
   - report_buffer; when no pool flight qualifies the response is a plain
   value holding that deadline and a message, with no error and no flight. *)
C16_DeadlineReported ==
    \A k \in RepositionCalls :
        LET req == calls[k].action_input
            pool == calls[k].pool
            ret == calls[k].ret
        IN  /\ "required_time" \in DOMAIN ret
            /\ IsTimeText(ret.required_time)
            /\ ParseTimeText(ret.required_time) = Deadline(req)
            /\ (~\E i \in DOMAIN pool : Qualifies(pool[i], req)) =>
                   DOMAIN ret = {"required_time", "message"}

C16_Witness ==
    \E k \in RepositionCalls :
        /\ Len(calls[k].pool) = 1
        /\ calls[k].pool[1].origin = calls[k].action_input.from_base
        /\ calls[k].pool[1].destination = calls[k].action_input.to_airport
        /\ calls[k].pool[1].seats_available
        /\ calls[k].action_input.report_buffer = 60
        /\ ParseTimeText(calls[k].pool[1].sched_arr)
               > Deadline(calls[k].action_input)
        /\ DOMAIN calls[k].ret = {"required_time", "message"}
        /\ calls[k].ret.required_time = TimeText(Deadline(calls[k].action_input))

----------------------------------------------------------------------------
(* book_hotel, as called by handle_ops_support *)

RoomsAt(location) ==
    {h \in DOMAIN hotel_inventory :
        /\ hotel_inventory[h].location = location
        /\ hotel_inventory[h].available_rooms > 0}

(* C17: book_hotel never returns success = true for a location at which no
   inventory row has available_rooms > 0; there it returns success = false
   with a failure_reason. *)
C17_NoRoomNoBooking ==
    \A k \in CallsTo("book_hotel") :
        RoomsAt(calls[k].location) = {} =>
            /\ calls[k].ret.success = FALSE
            /\ "failure_reason" \in DOMAIN calls[k].ret

C17_Witness ==
    \E k \in CallsTo("book_hotel") :
        /\ Len(hotel_inventory) = 2
        /\ hotel_inventory[1].location = calls[k].location
        /\ hotel_inventory[1].available_rooms = 0
        /\ hotel_inventory[2].location # calls[k].location
        /\ hotel_inventory[2].available_rooms > 0
        /\ calls[k].ret.success = FALSE

(* C18: whenever some inventory row at the requested location has
   available_rooms > 0, book_hotel returns success = true with the hotel_id
   and hotel_name of one hotel at that location whose available_rooms is
   the most among the location's hotels, and a confirmation token made of
   the crew id and a four-digit number. *)
C18_MostRoomsBooked ==
    \A k \in CallsTo("book_hotel") :
        RoomsAt(calls[k].location) # {} =>
            /\ calls[k].ret.success = TRUE
            /\ \E h \in RoomsAt(calls[k].location) :
                   /\ calls[k].ret.hotel_id = hotel_inventory[h].hotel_id
                   /\ calls[k].ret.hotel_name = hotel_inventory[h].name
                   /\ \A g \in RoomsAt(calls[k].location) :
                          hotel_inventory[g].available_rooms
                              <= hotel_inventory[h].available_rooms
            /\ calls[k].ret.confirmation[1] = "CONF"
            /\ calls[k].ret.confirmation[2] = calls[k].crew_id
            /\ calls[k].ret.confirmation[3] \in 1000..9999

C18_Witness ==
    \E k \in CallsTo("book_hotel") :
        /\ Len(hotel_inventory) = 2
        /\ hotel_inventory[1].location = calls[k].location
        /\ hotel_inventory[2].location = calls[k].location
        /\ hotel_inventory[1].available_rooms = 1
        /\ hotel_inventory[2].available_rooms = 2
        /\ calls[k].ret.success = TRUE
        /\ calls[k].ret.hotel_id = hotel_inventory[2].hotel_id

----------------------------------------------------------------------------
(* C19: a malformed timestamp makes the legality result of that one crew
   member a failed result and does not abort the pass: once the crew step
   is over, the pass has not ended in an exception, every crew member
   assigned to the flight has been evaluated, and each one evaluated
   against a malformed timestamp is reported illegal. *)
C19_MalformedContained ==
    pc # "start" =>
        /\ pc # "raised"
        /\ \A i \in DOMAIN Assigned :
               /\ ReportedLegal(Assigned[i]) \/ ReportedIllegal(Assigned[i])
               /\ (\/ Assigned[i].duty_end = Malformed
                   \/ TheFlight.scheduled_dep = Malformed
                   \/ TheFlight.scheduled_arr = Malformed)
                  => ReportedIllegal(Assigned[i])

----------------------------------------------------------------------------
(* C20: for well-formed input (valid timestamps, the disrupted flight in
   the schedule) and every combination of not-found conditions, a recovery
   pass over a flight that has crew assigned returns a result and raises
   no exception, in the plain and in the streaming variant of the crew
   assignment agent. *)
C20_NoExceptionOnWellFormed ==
    Assigned # <<>> =>
        /\ pc # "raised"
        /\ pc \in {"crew_done", "done"} => crew_result # NoResult

----------------------------------------------------------------------------
(* C21: retrieve_policy always returns a record with policy_id, title,
   policy_text and score: the fallback record (policy_id "fallback", score
   0) when retrieval failed or the best similarity is below the confidence
   threshold, and otherwise the best-matching policy with its score; a
   score equal to the threshold is a match. *)
C21_PolicyOrFallback ==
    \A k \in CallsTo("retrieve_policy") :
        LET sim == calls[k].similarity
            ret == calls[k].ret
        IN  /\ DOMAIN ret = {"policy_id", "title", "policy_text", "score"}
            /\ IF sim.failed \/ sim.best_score < ConfidenceThreshold
               THEN /\ ret = FALLBACK_POLICY
                    /\ ret.policy_id = "fallback"
                    /\ ret.score = 0
               ELSE /\ ret.policy_id = policy_docs[sim.best_idx].id
                    /\ ret.title = policy_docs[sim.best_idx].title
                    /\ ret.policy_text = policy_docs[sim.best_idx].text
                    /\ ret.score = sim.best_score

C21_Witness ==
    \E k \in CallsTo("retrieve_policy") :
        /\ ~calls[k].similarity.failed
        /\ calls[k].similarity.best_score = ConfidenceThreshold
        /\ calls[k].ret.policy_id = "test_policy"
        /\ calls[k].ret.score = ConfidenceThreshold

----------------------------------------------------------------------------
(* C22: the advisor's output never influences the decision: wherever a
   pass waits for an advisor's answer, whatever the advisor answers leaves
   the same crew status and spare_used and the same final_status. *)
C22_AdvisorIndependent ==
    /\ pc = "awaiting_policy_agent" =>
           \A a, b \in LlmResults :
               policy_agent_returns(a).final_status = policy_agent_returns(b).final_status
    /\ pc = "awaiting_stream_advisor" =>
           \A a, b \in {o \in handle_crew_assignment_stream(
                                  flight_schedule[1].flight_id, crew_roster,
                                  flight_schedule, repositioning_flights, duty_rules) :
                           advisor_call_in(o.trace) # 0} :
               /\ a.ret.status = b.ret.status
               /\ ("spare_used" \in DOMAIN a.ret) <=> ("spare_used" \in DOMAIN b.ret)
               /\ "spare_used" \in DOMAIN a.ret => a.ret.spare_used = b.ret.spare_used
               /\ after_crew_agent(a.ret).pc = after_crew_agent(b.ret).pc

----------------------------------------------------------------------------
(* C23: a recovery pass that has called the advisor eventually terminates
   with a result, even when the advisor call never returns: the pass ends
   with a final_status instead of blocking. *)
C23_TerminatesDespiteAdvisor ==
    (pc \in {"awaiting_policy_agent", "awaiting_stream_advisor"})
        ~> (pc = "done" /\ "final_status" \in DOMAIN orch_results)

----------------------------------------------------------------------------
(* C24: no two concurrent recovery passes, for different disrupted flights
   over the same roster, both succeed in assigning the same spare crew
   id. *)
C24_SpareAssignedOnce ==
    \A f, g \in DOMAIN crew_result :
        (/\ f # g
         /\ crew_result[f].status \in {"reassigned", "repositioning_initiated"}
         /\ crew_result[g].status \in {"reassigned", "repositioning_initiated"})
        => crew_result[f].spare_used # crew_result[g].spare_used

----------------------------------------------------------------------------
(* C25: a call of the full-algorithm reposition_flight_finder leaves the
   pool held by the tools object unchanged: the same rows and the same
   columns after the call as before it. *)
C25_PoolUnchanged == [][repositioning_flights' = repositioning_flights]_vars

----------------------------------------------------------------------------
(* C26: no booking changes a hotel record: every hotel's available_rooms
   stays at its initial value, so repeated bookings at one location all
   succeed or all fail and, where one hotel holds the most rooms, all return
   that hotel; the successful bookings at a hotel are not bounded by its
   room count. *)
C26_InventoryNeverChanges ==
    /\ [][hotel_inventory' = hotel_inventory]_vars
    /\ [](\A i, j \in CallsTo("book_hotel") :
             calls[i].location = calls[j].location =>
                 /\ calls[i].ret.success = calls[j].ret.success
                 /\ (/\ calls[i].ret.success
                     /\ \E h \in RoomsAt(calls[i].location) :
                           \A g \in RoomsAt(calls[i].location) \ {h} :
                               hotel_inventory[g].available_rooms
                                   < hotel_inventory[h].available_rooms)
                    => calls[i].ret.hotel_id = calls[j].ret.hotel_id)

\* a hotel with one room, booked twice
C26_Witness ==
    \E i, j \in CallsTo("book_hotel") :
        /\ i < j
        /\ calls[i].ret.success /\ calls[j].ret.success
        /\ calls[i].ret.hotel_id = calls[j].ret.hotel_id
        /\ \E h \in DOMAIN hotel_inventory :
              /\ hotel_inventory[h].hotel_id = calls[i].ret.hotel_id
              /\ hotel_inventory[h].available_rooms = 1

----------------------------------------------------------------------------
(* C27: the simplified reposition_flight_finder returns exactly the
   seat-available flights of the pool on the route, and the option its
   callers use, options[0], is the flight the full algorithm selects when
   the deadline excludes nothing: the earliest-arriving one of them. *)
C27_FirstOptionIsEarliest ==
    \A k \in CallsTo("reposition_flight_finder") :
        LET options == calls[k].ret
            on_route == {i \in DOMAIN repositioning_flights :
                            /\ repositioning_flights[i].origin = calls[k].from_location
                            /\ repositioning_flights[i].destination = calls[k].to_location
                            /\ repositioning_flights[i].seats_available}
            end_of_month == 31 * MinutesPerDay
            selected == earliest_available_flights(
                            available_flights(with_sched_arr_dt(repositioning_flights),
                                              calls[k].from_location,
                                              calls[k].to_location, end_of_month))
        IN  /\ {options[i] : i \in DOMAIN options}
                   = {repositioning_flights[i] : i \in on_route}
            /\ Len(options) = Cardinality(on_route)
            /\ options # <<>> => options[1] \in selected

----------------------------------------------------------------------------
(* C28: duty rules with a non-positive max_duty_hours or min_rest_hours are
   rejected before any legality check: no recovery pass evaluates
   check_legality against a non-positive limit. *)
C28_NonPositiveRulesRejected ==
    (duty_rules.max_duty_hours <= 0 \/ duty_rules.min_rest_hours <= 0)
        => CallsTo("check_legality") = {}

----------------------------------------------------------------------------
(* C29: for a request that names a role and an aircraft type,
   query_spare_pool returns exactly the roster entries (in roster order, as
   crew_id, name, base and rest_until) that have the requested role and
   qualification, are active, have no assigned flight and are not listed in
   exclude_crew_ids; so no returned crew member is in exclude_crew_ids; and
   when none qualifies the answer is the "No matching spare crew" message,
   not an error. *)
C29_Qualifying(k) ==
    LET params == calls[k].action_input
        excluded == IF "exclude_crew_ids" \in DOMAIN params
                    THEN {params.exclude_crew_ids[j] :
                             j \in DOMAIN params.exclude_crew_ids}
                    ELSE {}
    IN  {i \in DOMAIN crew_roster :
            /\ crew_roster[i].role = params.required_role
            /\ crew_roster[i].qualified_aircraft = params.qualified_aircraft
            /\ crew_roster[i].status = "active"
            /\ crew_roster[i].assigned_flight_id = NoFlight
            /\ crew_roster[i].crew_id \notin excluded}

C29_Named(k) ==
    /\ calls[k].action_input # InvalidJson
    /\ DictGet(calls[k].action_input, "required_role", "") # ""
    /\ DictGet(calls[k].action_input, "qualified_aircraft", "") # ""

C29_SparePoolExact ==
    \A k \in CallsTo("StatusQueryTools.query_spare_pool") :
        C29_Named(k) =>
            LET ret == calls[k].ret
                qualifying == C29_Qualifying(k)
            IN  IF qualifying = {}
                THEN ret = [message |-> "No matching spare crew"]
                ELSE /\ DOMAIN ret = {"records"}
                     /\ DOMAIN ret.records = 1..Cardinality(qualifying)
                     /\ {ret.records[i].crew_id : i \in DOMAIN ret.records}
                            = {crew_roster[i].crew_id : i \in qualifying}
                     /\ \A i \in DOMAIN ret.records :
                           \E j \in qualifying :
                              /\ ret.records[i].crew_id = crew_roster[j].crew_id
                              /\ ret.records[i].name = crew_roster[j].name
                              /\ ret.records[i].base = crew_roster[j].base
                              /\ ret.records[i].rest_until = crew_roster[j].rest_until
                     /\ LET exclude_crew_ids ==
                                 DictGet(calls[k].action_input, "exclude_crew_ids", <<>>)
                        IN  \A i \in DOMAIN ret.records :
                               \A j \in DOMAIN exclude_crew_ids :
                                  ret.records[i].crew_id # exclude_crew_ids[j]

\* a call that excludes a crew member who otherwise qualifies and returns
\* another one
C29_Witness ==
    \E k \in CallsTo("StatusQueryTools.query_spare_pool") :
        /\ C29_Named(k)
        /\ "exclude_crew_ids" \in DOMAIN calls[k].action_input
        /\ C29_Qualifying(k) # {}
        /\ \E i \in DOMAIN crew_roster :
              /\ crew_roster[i].role = calls[k].action_input.required_role
              /\ crew_roster[i].qualified_aircraft
                     = calls[k].action_input.qualified_aircraft
              /\ crew_roster[i].status = "active"
              /\ crew_roster[i].assigned_flight_id = NoFlight
              /\ \E j \in DOMAIN calls[k].action_input.exclude_crew_ids :
                    calls[k].action_input.exclude_crew_ids[j] = crew_roster[i].crew_id

----------------------------------------------------------------------------
(* C30: every crew member duty_hour_checker reports on is "not legal"
   exactly when the duty_end recorded in the roster is strictly earlier than
   the projected arrival, scheduled arrival + delay_minutes, and "legal"
   otherwise, also when the two are equal; the report carries the recorded
   duty_end and that projected arrival. *)
C30_Reports(k) ==
    LET ret == calls[k].ret
    IN  IF calls[k].action_input = InvalidJson \/ IsRaised(ret)
           \/ "error" \in DOMAIN ret
        THEN {}
        ELSE DOMAIN ret

C30_RecordedDutyEnd(crew_id) ==
    LET i == CHOOSE i \in DOMAIN crew_roster : crew_roster[i].crew_id = crew_id
    IN  crew_roster[i].duty_end

C30_DelayAwareStatus ==
    \A k \in CallsTo("StatusQueryTools.duty_hour_checker") :
        \A crew_id \in C30_Reports(k) :
            LET report == calls[k].ret[crew_id]
                params == calls[k].action_input
                projected == ParseTimeText(params.sched_arr) + params.delay_minutes
                recorded == C30_RecordedDutyEnd(crew_id)
            IN  /\ \E i \in DOMAIN crew_roster : crew_roster[i].crew_id = crew_id
                /\ report.duty_end = recorded
                /\ report.projected_arrival = TimeText(projected)
                /\ report.status \in {"legal", "not legal"}
                /\ report.status = "not legal"
                       <=> ParseTimeText(recorded) < projected

\* a crew member whose duty_end equals the projected arrival, after a delay,
\* reported legal, next to one reported not legal
C30_Witness ==
    \E k \in CallsTo("StatusQueryTools.duty_hour_checker") :
        /\ calls[k].action_input # InvalidJson
        /\ calls[k].action_input.delay_minutes > 0
        /\ \E a \in C30_Reports(k), b \in C30_Reports(k) :
              /\ calls[k].ret[a].status = "legal"
              /\ calls[k].ret[a].duty_end = calls[k].ret[a].projected_arrival
              /\ calls[k].ret[b].status = "not legal"

----------------------------------------------------------------------------
(* C31: the crew member named in spare_used of a reassigned or
   repositioning_initiated result passes check_legality for the disrupted
   flight's window under the duty rules of the pass. *)
C31_SpareIsLegal ==
    (crew_result.status \in {"reassigned", "repositioning_initiated"}) =>
        check_legality(crew_result.spare_used, TheFlight.scheduled_dep,
                       TheFlight.scheduled_arr, duty_rules, crew_roster).legal

----------------------------------------------------------------------------
(* C32: whenever handle_crew_assignment returns reassigned, the chosen
   spare is based at the disrupted flight's origin; a spare based elsewhere
   is used only through repositioning_initiated. *)
C32_ReassignedSpareAtOrigin ==
    (crew_result.status = "reassigned") =>
        \A i \in DOMAIN crew_roster :
            crew_roster[i].crew_id = crew_result.spare_used
                => crew_roster[i].base = TheFlight.origin

----------------------------------------------------------------------------
(* C33: for a disrupted flight to which the roster assigns no crew at all,
   handle_crew_assignment returns status legal with an empty assigned_crew
   list, and calls neither find_spares nor the policy advisor. *)
C33_NoCrewIsLegal ==
    (CrewReturned /\ Assigned = <<>>) =>
        /\ crew_result.status = "legal"
        /\ crew_result.assigned_crew = <<>>
        /\ CallsTo("find_spares") = {}
        /\ CallsTo("retrieve_policy") = {}
        /\ CallsTo("check_legality") = {}

\* the pass has returned legal for a flight with no crew while the roster
\* holds a spare and crew of another flight
C33_Witness ==
    /\ CrewReturned
    /\ Assigned = <<>>
    /\ SpareInRoster
    /\ \E i \in DOMAIN crew_roster : crew_roster[i].assigned_flight_id = OtherFlightId
    /\ crew_result.status = "legal"

----------------------------------------------------------------------------
(* C34: in Orchestrator.handle_disruption the steps log begins with the
   crew_assignment entry; an ops_support entry comes only after a
   crew_assignment whose status is reassigned or repositioning_initiated;
   an llm_policy entry appears at most once and is then the last entry; the
   policy agent is invoked at most once per pass and the ops agent at most
   once. *)
C34_StepKind(step) == CHOOSE kind \in DOMAIN step : TRUE

C34_StepsOfKind(kind) ==
    {i \in DOMAIN orch_results.steps : C34_StepKind(orch_results.steps[i]) = kind}

C34_StepsOrdered ==
    ("steps" \in DOMAIN orch_results) =>
        LET steps == orch_results.steps
        IN  /\ steps # <<>>
            /\ C34_StepsOfKind("crew_assignment") = {1}
            /\ \A i \in C34_StepsOfKind("ops_support") :
                  /\ i > 1
                  /\ steps[1].crew_assignment.status
                         \in {"reassigned", "repositioning_initiated"}
            /\ Cardinality(C34_StepsOfKind("ops_support")) <= 1
            /\ Cardinality(C34_StepsOfKind("llm_policy")) <= 1
            /\ \A i \in C34_StepsOfKind("llm_policy") : i = Len(steps)
            /\ Cardinality(CallsTo("llm_policy_reason")) <= 1
            /\ Cardinality(CallsTo("llm_policy_reason"))
                   = Cardinality(C34_StepsOfKind("llm_policy"))
            /\ Cardinality(CallsTo("book_hotel")) <= 1
            /\ Cardinality(CallsTo("book_hotel"))
                   = Cardinality(C34_StepsOfKind("ops_support"))

\* a pass that ran the crew agent, the ops agent and, on the hotel
\* escalation, the policy agent
C34_Witness ==
    /\ pc = "done"
    /\ "steps" \in DOMAIN orch_results
    /\ C34_StepsOfKind("ops_support") # {}
    /\ C34_StepsOfKind("ops_policy") # {}
    /\ C34_StepsOfKind("llm_policy") = {Len(orch_results.steps)}
    /\ Len(orch_results.steps) = 4

----------------------------------------------------------------------------
(* C35: Orchestrator.handle_disruption sets final_status on every return.
   It is the crew result's status (legal, reassigned or
   repositioning_initiated) unless the crew step or the hotel step ended in
   escalation_required, and then it is the llm_decision text the policy
   agent returned; after a successful hotel booking it is the crew status,
   never booked. *)
C35_Escalated ==
    \/ crew_result.status = "escalation_required"
    \/ ops_result.status = "escalation_required"

C35_FinalStatus ==
    /\ (pc = "done") <=> ("final_status" \in DOMAIN orch_results)
    /\ (pc = "done") =>
          IF C35_Escalated
          THEN /\ CallsTo("llm_policy_reason") # {}
               /\ \A k \in CallsTo("llm_policy_reason") :
                     orch_results.final_status = calls[k].ret.llm_decision
          ELSE /\ orch_results.final_status = crew_result.status
               /\ orch_results.final_status
                      \in {"legal", "reassigned", "repositioning_initiated"}
               /\ (ops_result.status = "booked") <=> (crew_result.status # "legal")

\* a pass that booked a hotel for the spare and ended with the crew status
C35_Witness ==
    /\ pc = "done"
    /\ ops_result.status = "booked"
    /\ crew_result.status = "reassigned"
    /\ orch_results.final_status = "reassigned"

----------------------------------------------------------------------------
(* C36: whenever check_legality returns legal = true,
   remaining_duty_minutes lies between 0 and max_duty_hours * 60 inclusive,
   for every planned window, a window whose planned_end precedes its
   planned_start included. *)
C36_RemainingInRange ==
    (legality # NoCall /\ ~IsRaised(legality.ret) /\ legality.ret.legal) =>
        /\ legality.ret.remaining_duty_minutes >= 0
        /\ legality.ret.remaining_duty_minutes <= 60 * duty_rules.max_duty_hours

----------------------------------------------------------------------------
(* C37: after any sequence of add_affected_crew and get_affected_crew calls
   on one tools object, get_affected_crew returns exactly the entries of
   the successful adds in call order, duplicates kept; an add with invalid
   JSON or with a missing crew_id, role or base returns an error and leaves
   the list unchanged; get_affected_crew never changes the list. *)
C37_WellFormed(action_input) ==
    /\ action_input # InvalidJson
    /\ \A key \in {"crew_id", "role", "base"} : DictGet(action_input, key, "") # ""

C37_IsAdd(k) == calls[k].fn = "StatusQueryTools.add_affected_crew"

\* the entries of the well-formed adds among the first n calls, in call order
RECURSIVE C37_Added(_)
C37_Added(n) ==
    IF n = 0 THEN <<>>
    ELSE IF C37_IsAdd(n) /\ C37_WellFormed(calls[n].action_input)
    THEN Append(C37_Added(n - 1),
                [crew_id |-> calls[n].action_input.crew_id,
                 role |-> calls[n].action_input.role,
                 base |-> calls[n].action_input.base])
    ELSE C37_Added(n - 1)

C37_AffectedListExact ==
    /\ affected_crew_list = C37_Added(Len(calls))
    /\ \A k \in CallsTo("StatusQueryTools.get_affected_crew") :
          /\ calls[k].ret = [affected_crew |-> C37_Added(k - 1)]
          /\ C37_Added(k) = C37_Added(k - 1)
    /\ \A k \in CallsTo("StatusQueryTools.add_affected_crew") :
          IF C37_WellFormed(calls[k].action_input)
          THEN DOMAIN calls[k].ret = {"message"}
          ELSE DOMAIN calls[k].ret = {"error"}

\* the same crew member added twice, with a rejected add and then a get
C37_Witness ==
    /\ \E k \in CallsTo("StatusQueryTools.get_affected_crew") :
          /\ Len(calls[k].ret.affected_crew) = 2
          /\ calls[k].ret.affected_crew[1] = calls[k].ret.affected_crew[2]
    /\ \E k \in CallsTo("StatusQueryTools.add_affected_crew") :
          ~C37_WellFormed(calls[k].action_input)

----------------------------------------------------------------------------
(* C38: ConnectionManager.broadcast attempts to send the message to every
   connection that was active when it started, removes exactly the
   connections whose send failed, keeps every connection whose send
   succeeded, and never raises, also when two broadcasts, or a broadcast
   and a disconnect of the same connection, interleave at its awaits. *)
C38_BroadcastReachesAll ==
    \A b \in Broadcasts :
        /\ pc[b].at # "raised"
        /\ pc[b].removed = pc[b].failed
        /\ pc[b].removed \cap pc[b].sent = {}
        /\ (pc[b].at = "done") => (pc[b].started_with \subseteq pc[b].attempted)

----------------------------------------------------------------------------
(* C39: each disruption record starts with status processing and, once its
   background task has run, has status completed, with results and
   final_status, or failed, with error; the status never returns to
   processing, and no record stays processing after its task ends, whatever
   exception the recovery pass raises. *)
C39_RecordSettled(id) ==
    /\ active_requests[id].status \in {"processing", "completed", "failed"}
    /\ (active_requests[id].status = "processing")
           <=> (pc[id] \in {"process_disruption", "process_disruption_stream"})
    /\ (pc[id] \in {"ended", "ended_raised"})
           => active_requests[id].status \in {"completed", "failed"}
    /\ (active_requests[id].status = "completed")
           => /\ "results" \in DOMAIN active_requests[id]
              /\ "final_status" \in DOMAIN active_requests[id]
    /\ (active_requests[id].status = "failed")
           => "error" \in DOMAIN active_requests[id]

C39_RecordsSettle ==
    /\ [](\A id \in DOMAIN active_requests : C39_RecordSettled(id))
    /\ [][\A id \in DOMAIN active_requests' :
             IF id \in DOMAIN active_requests
             THEN active_requests[id].status # "processing"
                      => active_requests'[id].status # "processing"
             ELSE active_requests'[id].status = "processing"]_vars

\* one record failed because the recovery pass raised, and a streaming
\* record whose task has ended
C39_Witness ==
    \E a \in DOMAIN active_requests, b \in DOMAIN active_requests :
        /\ ~active_requests[a].stream_enabled
        /\ pc[a] = "ended"
        /\ active_requests[a].status = "failed"
        /\ active_requests[b].stream_enabled
        /\ pc[b] \in {"ended", "ended_raised"}
        /\ active_requests[b].status \in {"completed", "failed"}

====
